---- MODULE Spec2Model ----
(***************************************************************************)
(* Model of the hybrid retrieval and fusion engine of communiverse-bot:     *)
(* the in-memory chunk store (core/rag.py), the Atlas-backed chunk store    *)
(* (core/rag_avs.py) and the fusion / selection functions of the RAG+       *)
(* pipeline (app/pipelines/rag_plus.py).                                    *)
(*                                                                          *)
(* Strings are run-length encoded: a string is a sequence of runs           *)
(* [c |-> character, n |-> repetitions] in which adjacent runs carry        *)
(* different characters.  "aaaa bb" is <<[c|->"a",n|->4],[c|->" ",n|->1],   *)
(* [c|->"b",n|->2]>>.  Every operation below (length, concatenation,        *)
(* slicing, stripping, splitting) computes on that encoding exactly what    *)
(* the Python string operation computes on the string.                      *)
(*                                                                          *)
(* Identifiers (doc_id, chunk_id) are sequences of the segments between     *)
(* their ":" separators: "a:b:0" is <<"a","b","0">>.                        *)
(***************************************************************************)
EXTENDS Integers, Sequences, FiniteSets, TLC

\* ------------------------------------------------------------------------
\* Run-length encoded strings
\* ------------------------------------------------------------------------

Run(ch, k) == [c |-> ch, n |-> k]

EmptyStr == << >>

\* a string of k copies of ch
Rep(ch, k) == IF k = 0 THEN EmptyStr ELSE <<Run(ch, k)>>

\* len(s)
RECURSIVE SLen(_)
SLen(s) == IF s = << >> THEN 0 ELSE Head(s).n + SLen(Tail(s))

\* s + t
SCat(s, t) ==
    IF s = << >> THEN t
    ELSE IF t = << >> THEN s
    ELSE IF s[Len(s)].c = t[1].c
         THEN SubSeq(s, 1, Len(s) - 1)
                \o <<Run(t[1].c, s[Len(s)].n + t[1].n)>>
                \o Tail(t)
         ELSE s \o t

\* s[:k] for k >= 0
RECURSIVE SHead(_, _)
SHead(s, k) ==
    IF k = 0 \/ s = << >> THEN << >>
    ELSE IF Head(s).n >= k THEN <<Run(Head(s).c, k)>>
    ELSE <<Head(s)>> \o SHead(Tail(s), k - Head(s).n)

\* s[k:] for k >= 0
RECURSIVE SDrop(_, _)
SDrop(s, k) ==
    IF k = 0 \/ s = << >> THEN s
    ELSE IF Head(s).n > k THEN <<Run(Head(s).c, Head(s).n - k)>> \o Tail(s)
    ELSE SDrop(Tail(s), k - Head(s).n)

\* s[-k:] : Python reads -0 as 0, so s[-0:] is the whole string
STail(s, k) ==
    IF k = 0 \/ k >= SLen(s) THEN s ELSE SDrop(s, SLen(s) - k)

IsSpace(ch) == ch \in {" ", "\n"}

\* s.strip()
RECURSIVE LStrip(_)
LStrip(s) == IF s # << >> /\ IsSpace(Head(s).c) THEN LStrip(Tail(s)) ELSE s

RECURSIVE RStrip(_)
RStrip(s) ==
    IF s # << >> /\ IsSpace(s[Len(s)].c)
    THEN RStrip(SubSeq(s, 1, Len(s) - 1))
    ELSE s

Strip(s) == RStrip(LStrip(s))

\* re.sub(r"\s+", " ", s) : every maximal run of whitespace becomes one space
RECURSIVE SquashWs(_)
SquashWs(s) ==
    IF s = << >> THEN << >>
    ELSE IF IsSpace(Head(s).c)
         THEN <<Run(" ", 1)>> \o SquashWs(LStrip(s))
         ELSE <<Head(s)>> \o SquashWs(Tail(s))

\* normalize_ws(s) of app/util/text.py, also the per-paragraph clean-up of
\* DocumentProcessor._split_paragraphs
normalize_ws(s) == Strip(SquashWs(s))

LowerOf(ch) ==
    CASE ch = "A" -> "a"
      [] ch = "B" -> "b"
      [] ch = "C" -> "c"
      [] OTHER -> ch

\* s.lower() ; lowering can make two adjacent runs equal, so runs are re-merged
RECURSIVE Lower(_)
Lower(s) ==
    IF s = << >> THEN << >>
    ELSE SCat(<<Run(LowerOf(Head(s).c), Head(s).n)>>, Lower(Tail(s)))

\* ------------------------------------------------------------------------
\* DocumentProcessor
\* ------------------------------------------------------------------------

max_chunk_chars == 700
overlap == 80

\* re.split(r"\n{2,}", text): cut at every run of two or more newlines.
\* The result keeps empty pieces, as re.split does.
RECURSIVE SplitBlank(_, _)
SplitBlank(s, cur) ==
    IF s = << >> THEN <<cur>>
    ELSE IF Head(s).c = "\n" /\ Head(s).n >= 2
         THEN <<cur>> \o SplitBlank(Tail(s), << >>)
         ELSE SplitBlank(Tail(s), cur \o <<Head(s)>>)

RECURSIVE CleanParts(_)
CleanParts(ps) ==
    IF ps = << >> THEN << >>
    ELSE IF Strip(Head(ps)) # << >>
         THEN <<normalize_ws(Head(ps))>> \o CleanParts(Tail(ps))
         ELSE CleanParts(Tail(ps))

_split_paragraphs(text) == CleanParts(SplitBlank(text, << >>))

Space == Rep(" ", 1)

\* the loop of DocumentProcessor._chunk over the paragraphs still to place;
\* st = [chunks, buf]
RECURSIVE ChunkLoop(_, _, _, _)
ChunkLoop(paras, st, maxc, ovl) ==
    IF paras = << >> THEN st
    ELSE
      LET p == Head(paras)
          flushed == IF st.buf # << >> THEN Append(st.chunks, st.buf)
                     ELSE st.chunks
          nxt ==
            IF SLen(st.buf) + SLen(p) + 1 <= maxc
            THEN [chunks |-> st.chunks,
                  buf    |-> Strip(SCat(SCat(st.buf, Space), p))]
            ELSE IF flushed # << >>
                 THEN [chunks |-> flushed,
                       buf    |-> Strip(SCat(SCat(STail(flushed[Len(flushed)], ovl),
                                                  Space), p))]
                 ELSE [chunks |-> flushed, buf |-> p]
      IN ChunkLoop(Tail(paras), nxt, maxc, ovl)

ChunkWith(text, maxc, ovl) ==
    LET paras == _split_paragraphs(text)
        st    == ChunkLoop(paras, [chunks |-> << >>, buf |-> << >>], maxc, ovl)
    IN IF paras = << >> THEN << >>
       ELSE IF st.buf # << >> THEN Append(st.chunks, st.buf) ELSE st.chunks

_chunk(text) == ChunkWith(text, max_chunk_chars, overlap)

\* ------------------------------------------------------------------------
\* Identifiers
\* ------------------------------------------------------------------------

\* str(i) for the chunk indices that occur
IdxStr(i) == <<"0", "1", "2", "3", "4", "5", "6", "7", "8", "9", "10">>[i + 1]

\* f"{doc_id}:{i}"
ChunkId(doc_id, i) == Append(doc_id, IdxStr(i))

\* cid.startswith(f"{doc_id}:") : doc_id followed by a separator is a prefix
\* of cid exactly when the segments of doc_id are a proper prefix of cid's
StartsWithDoc(cid, doc_id) ==
    /\ Len(cid) > Len(doc_id)
    /\ SubSeq(cid, 1, Len(doc_id)) = doc_id

\* cid.split(":", 1)[0]
FirstSegment(cid) == <<cid[1]>>

NoNs == ""

\* DocumentProcessor.process_text: the chunk dictionaries {id, text, metadata}
\* (metadata flattened into the record; vec is the _Chunk.vec slot, filled by
\* the index)
process_text(text, doc_id, ns, tags) ==
    LET cs == _chunk(text)
    IN [doc_id |-> doc_id,
        chunks |-> [i \in 1..Len(cs) |->
                      [id       |-> ChunkId(doc_id, i - 1),
                       text     |-> cs[i],
                       ns       |-> ns,
                       tags     |-> tags,
                       order    |-> i - 1,
                       disabled |-> FALSE]]]

\* ------------------------------------------------------------------------
\* Embedding provider
\* ------------------------------------------------------------------------

\* EmbeddingManager.encode with normalize_embeddings=True: a unit vector per
\* text, the same vector for the same text.  Vectors are given in units of
\* 1/5, so every vector below has norm 5/5 = 1.
Encode(text) ==
    LET t == Lower(text)
    IN IF t = << >> THEN <<-5, 0>>
       ELSE CASE t[1].c = "a" -> <<5, 0>>
              [] t[1].c = "b" -> <<0, 5>>
              [] t[1].c = "c" -> <<3, 4>>
              [] t[1].c = "d" -> <<4, 3>>
              [] OTHER        -> <<-5, 0>>

Dot(a, b) == a[1] * b[1] + a[2] * b[2]

\* np.dot(q, v) / (norm(q) * norm(v) + 1e-8) for unit vectors, in units of
\* 1/25 (the common factor 1/(1 + 1e-8) is the same for every pair)
Cosine(a, b) == Dot(a, b)

\* ------------------------------------------------------------------------
\* Tokens
\* ------------------------------------------------------------------------

IsWordChar(ch) == ch \in {"a", "b", "c", "d", "x", "y"}

\* re.findall(r"\w+", s): the maximal runs of word characters, in order
RECURSIVE FindWords(_, _)
FindWords(s, cur) ==
    IF s = << >> THEN (IF cur = << >> THEN << >> ELSE <<cur>>)
    ELSE IF IsWordChar(Head(s).c)
         THEN FindWords(Tail(s), cur \o <<Head(s)>>)
         ELSE (IF cur = << >> THEN << >> ELSE <<cur>>)
                \o FindWords(Tail(s), << >>)

\* _InMemoryIndex._tokenize
_tokenize(text) == FindWords(Lower(text), << >>)

\* the freq dictionary built in _build_bm25: token -> occurrences
Range(f) == {f[i] : i \in DOMAIN f}

Freq(toks) ==
    [t \in Range(toks) |-> Cardinality({i \in DOMAIN toks : toks[i] = t})]

RECURSIVE SumOver(_, _)
SumOver(f, S) ==
    IF S = {} THEN 0
    ELSE LET x == CHOOSE y \in S : TRUE IN f[x] + SumOver(f, S \ {x})

\* sum(tf.values())
FreqTotal(tf) == SumOver(tf, DOMAIN tf)

\* ------------------------------------------------------------------------
\* _InMemoryIndex : filters and ranking
\* ------------------------------------------------------------------------

\* A ranked list is a sequence of pairs [i |-> chunk index (from 0), s |-> score].

\* list.sort(key=score, reverse=True): stable, so equal scores keep their order
RECURSIVE InsertDesc(_, _)
InsertDesc(sorted, x) ==
    IF sorted = << >> THEN <<x>>
    ELSE IF Head(sorted).s >= x.s
         THEN <<Head(sorted)>> \o InsertDesc(Tail(sorted), x)
         ELSE <<x>> \o sorted

RECURSIVE SortDesc(_)
SortDesc(lst) ==
    IF lst = << >> THEN << >>
    ELSE InsertDesc(SortDesc(SubSeq(lst, 1, Len(lst) - 1)), lst[Len(lst)])

\* lst[:k]
Take(lst, k) == SubSeq(lst, 1, IF k < Len(lst) THEN k ELSE Len(lst))

Max2(a, b) == IF a >= b THEN a ELSE b

\* A filter is [ns, tags_any, tags_all]; "" and {} are the falsy values
\* (None or empty) that switch a condition off.
_match_filters(c, flt) ==
    /\ ~c.disabled
    /\ (flt.ns # NoNs => c.ns = flt.ns)
    /\ (flt.tags_any # {} => c.tags \cap flt.tags_any # {})
    /\ (flt.tags_all # {} => flt.tags_all \subseteq c.tags)

\* mask = [i for i, c in enumerate(chunks) if _match_filters(...)], ascending
RECURSIVE MaskFrom(_, _, _)
MaskFrom(cs, flt, i) ==
    IF i > Len(cs) THEN << >>
    ELSE (IF _match_filters(cs[i], flt) THEN <<i - 1>> ELSE << >>)
           \o MaskFrom(cs, flt, i + 1)

\* a mask that looks at the disabled flag only
MaskUnfiltered(cs, flt) ==
    MaskFrom(cs, [ns |-> "", tags_any |-> {}, tags_all |-> {}], 1)

Mask(cs, flt) == MaskFrom(cs, flt, 1)

NoVec == << >>

\* _InMemoryIndex._ensure_vectors(mask): encode only the chunks of the mask
\* that have no vector yet
_ensure_vectors(cs, mask) ==
    [k \in 1..Len(cs) |->
        IF (k - 1) \in Range(mask) /\ cs[k].vec = NoVec
        THEN [cs[k] EXCEPT !.vec = Encode(cs[k].text)]
        ELSE cs[k]]

\* every chunk of the mask, with or without a vector
ToEncodeAll(cs, mask) ==
    {k \in 1..Len(cs) : (k - 1) \in Range(mask)}

\* the texts _ensure_vectors sends to the provider
ToEncode(cs, mask) ==
    {k \in 1..Len(cs) : (k - 1) \in Range(mask) /\ cs[k].vec = NoVec}

\* _InMemoryIndex.semantic_search: [pairs, chunks] (the chunks with the
\* vectors it filled in)
semantic_search(cs, query, top_k, flt) ==
    LET mask == Mask(cs, flt)
        cs2  == _ensure_vectors(cs, mask)
        qvec == Encode(query)
        sims == [k \in 1..Len(mask) |->
                    [i |-> mask[k], s |-> Cosine(qvec, cs2[mask[k] + 1].vec)]]
    IN IF cs = << >> \/ mask = << >>
       THEN [pairs |-> << >>, chunks |-> cs]
       ELSE [pairs |-> Take(SortDesc(sims), top_k), chunks |-> cs2]

\* ---- bm25 ----

\* 1000 * ln(k), rounded, for k = 1..24
Ln1000(k) == <<0, 693, 1099, 1386, 1609, 1792, 1946, 2079, 2197, 2303, 2398, 2485, 2565, 2639, 2708, 2773, 2833, 2890, 2944, 2996, 3045, 3091, 3135, 3178>>[k]

\* idf = ln(1 + (N - n + 0.5) / (n + 0.5)) = ln((2N + 2) / (2n + 1)), times 1000
IdfMilli(N, n) == Ln1000(2 * N + 2) - Ln1000(2 * n + 1)

\* k1 = 1.5 and b = 0.75 as fractions
k1_num == 3
k1_den == 2
b_num == 3
b_den == 4

\* the BM25 tables [built, tf, df, avg]; avg is the fraction sum(lengths) / N
NoTables ==
    [built |-> FALSE, tf |-> << >>, df |-> << >>, avg |-> [num |-> 0, den |-> 1]]

AllTokens(cs) == UNION {Range(_tokenize(cs[k].text)) : k \in 1..Len(cs)}

\* a build that appends to the tables it finds instead of clearing them
_build_bm25_no_clear(cs, tabs) ==
    IF Len(cs) = 0 THEN tabs
    ELSE
      LET tfs  == [k \in 1..Len(cs) |-> Freq(_tokenize(cs[k].text))]
          lens == [k \in 1..Len(cs) |-> Len(_tokenize(cs[k].text))]
      IN [built |-> TRUE,
          tf    |-> tabs.tf \o tfs,
          df    |-> [t \in AllTokens(cs) |->
                        Cardinality({k \in 1..Len(cs) : t \in DOMAIN tfs[k]})],
          avg   |-> [num |-> SumOver(lens, 1..Len(cs)), den |-> Len(cs)]]

\* _InMemoryIndex._build_bm25
_build_bm25(cs, tabs) ==
    IF Len(cs) = 0 THEN tabs
    ELSE
      LET tfs  == [k \in 1..Len(cs) |-> Freq(_tokenize(cs[k].text))]
          lens == [k \in 1..Len(cs) |-> Len(_tokenize(cs[k].text))]
      IN [built |-> TRUE,
          tf    |-> tfs,
          df    |-> [t \in AllTokens(cs) |->
                        Cardinality({k \in 1..Len(cs) : t \in DOMAIN tfs[k]})],
          avg   |-> [num |-> SumOver(lens, 1..Len(cs)), den |-> Len(cs)]]

\* the term score without the factor f of the numerator
TermScoreUnweighted(N, n, f, dl, avg) ==
    LET an == IF avg.num >= avg.den THEN avg.num ELSE 1
        ad == IF avg.num >= avg.den THEN avg.den ELSE 1
        nm == (k1_num + k1_den) * b_den * an
        dn == f * k1_den * b_den * an
                + k1_num * ((b_den - b_num) * an + b_num * dl * ad)
    IN (IdfMilli(N, n) * nm * 100) \div dn

\* one term of the BM25 sum for a chunk with f > 0 occurrences of the term:
\* idf * f * (k1 + 1) / (f + k1 * (1 - b + b * dl / max(1.0, avgdl))),
\* in units of 1e-5 (idf in units of 1e-3, the quotient in units of 1e-2)
TermScore(N, n, f, dl, avg) ==
    LET an == IF avg.num >= avg.den THEN avg.num ELSE 1
        ad == IF avg.num >= avg.den THEN avg.den ELSE 1
        nm == f * (k1_num + k1_den) * b_den * an
        dn == f * k1_den * b_den * an
                + k1_num * ((b_den - b_num) * an + b_num * dl * ad)
    IN (IdfMilli(N, n) * nm * 100) \div dn

RECURSIVE QuerySum(_, _, _, _)
QuerySum(toks, tf, tabs, N) ==
    IF toks = << >> THEN 0
    ELSE LET t  == Head(toks)
             f  == IF t \in DOMAIN tf THEN tf[t] ELSE 0
             n  == IF t \in DOMAIN tabs.df THEN tabs.df[t] ELSE 0
             dl == IF FreqTotal(tf) = 0 THEN 1 ELSE FreqTotal(tf)
         IN (IF f = 0 THEN 0 ELSE TermScore(N, n, f, dl, tabs.avg))
              + QuerySum(Tail(toks), tf, tabs, N)

RECURSIVE KeepPositive(_)
KeepPositive(lst) ==
    IF lst = << >> THEN << >>
    ELSE (IF Head(lst).s > 0 THEN <<Head(lst)>> ELSE << >>)
           \o KeepPositive(Tail(lst))

\* _InMemoryIndex.bm25_search: [pairs, tabs] (the tables after a rebuild)
bm25_search(cs, tabs, query, top_k, flt) ==
    LET tabs2 == IF tabs.built THEN tabs ELSE _build_bm25(cs, tabs)
        toks  == _tokenize(query)
        mask  == Mask(cs, flt)
        N     == Len(cs)
        scores == [k \in 1..Len(mask) |->
                     LET i  == mask[k]
                         tf == IF i < Len(tabs2.tf) THEN tabs2.tf[i + 1]
                               ELSE << >>
                     IN [i |-> i, s |-> QuerySum(toks, tf, tabs2, N)]]
    IN IF cs = << >> THEN [pairs |-> << >>, tabs |-> tabs]
       ELSE IF mask = << >> THEN [pairs |-> << >>, tabs |-> tabs2]
       ELSE [pairs |-> Take(SortDesc(KeepPositive(scores)), top_k),
             tabs  |-> tabs2]

\* ---- the set of keys built by hybrid_search ----

\* Python's set of small non-negative ints (hash(i) = i), as CPython lays it
\* out: an open-addressing table of mask + 1 slots, -1 marking a free slot.
\* Iteration visits the slots in table order, which is the order in which
\* hybrid_search builds its fused list.
\* CPython probes 9 further slots in a row when they fit in the table
\* (LINEAR_PROBES) and shifts the perturbation by 5 bits (PERTURB_SHIFT),
\* that is, divides it by 32.
PyEmpty == [mask |-> 7, t |-> [j \in 0..7 |-> -1], fill |-> 0]

MinOf(S) == CHOOSE x \in S : \A y \in S : x <= y

\* the slot where key goes, or -1 when key is already in the table
RECURSIVE PyProbe(_, _, _, _, _)
PyProbe(t, mask, key, i, perturb) ==
    LET probes == IF i + 9 <= mask THEN 9 ELSE 0
        Pick(cand, p2) ==
            IF cand # {}
            THEN (IF t[MinOf(cand)] = key THEN -1 ELSE MinOf(cand))
            ELSE PyProbe(t, mask, key, (i * 5 + 1 + p2) % (mask + 1), p2)
    IN Pick({j \in i..(i + probes) : t[j] = -1 \/ t[j] = key}, perturb \div 32)

PyPut(s, key) ==
    LET Store(j) == IF j = -1 THEN s
                    ELSE [s EXCEPT !.t[j] = key, !.fill = @ + 1]
    IN Store(PyProbe(s.t, s.mask, key, key % (s.mask + 1), key))

RECURSIVE PyNewSize(_, _)
PyNewSize(size, minused) ==
    IF size <= minused THEN PyNewSize(2 * size, minused) ELSE size

\* re-insert the entries of table t, slots from..mask, into s
RECURSIVE PyPutAll(_, _, _, _)
PyPutAll(s, t, from, mask) ==
    IF from > mask THEN s
    ELSE PyPutAll(IF t[from] = -1 THEN s ELSE PyPut(s, t[from]), t, from + 1, mask)

\* set_table_resize
PyResize(s, minused) ==
    LET size == PyNewSize(8, minused)
    IN PyPutAll([mask |-> size - 1, t |-> [j \in 0..(size - 1) |-> -1], fill |-> 0],
                s.t, 0, s.mask)

\* set_add_entry, with the growth check that follows an insertion
PyAdd(s, key) ==
    LET Grow(s1) == IF s1.fill = s.fill \/ s1.fill * 5 < s1.mask * 3 THEN s1
                    ELSE PyResize(s1, s1.fill * 4)
    IN Grow(PyPut(s, key))

RECURSIVE PyAddSeq(_, _)
PyAddSeq(s, keys) ==
    IF keys = << >> THEN s ELSE PyAddSeq(PyAdd(s, Head(keys)), Tail(keys))

\* set(d.keys()) for a dict whose keys were inserted in the order of keys
PySetOf(keys) == PyAddSeq(PyEmpty, keys)

RECURSIVE PyAddTable(_, _, _, _)
PyAddTable(s, t, from, mask) ==
    IF from > mask THEN s
    ELSE PyAddTable(IF t[from] = -1 THEN s ELSE PyAdd(s, t[from]), t, from + 1, mask)

\* set_merge(s, o)
PyMerge(s, o) ==
    LET Copy(s1) == IF s1.fill = 0 /\ s1.mask = o.mask THEN o
                    ELSE IF s1.fill = 0 THEN PyPutAll(s1, o.t, 0, o.mask)
                    ELSE PyAddTable(s1, o.t, 0, o.mask)
    IN Copy(IF (s.fill + o.fill) * 5 >= s.mask * 3
            THEN PyResize(s, (s.fill + o.fill) * 2)
            ELSE s)

\* a | b
PyUnion(a, b) == PyMerge(PyMerge(PyEmpty, a), b)

\* list(s)
RECURSIVE PyIterFrom(_, _)
PyIterFrom(s, j) ==
    IF j > s.mask THEN << >>
    ELSE (IF s.t[j] = -1 THEN << >> ELSE <<s.t[j]>>) \o PyIterFrom(s, j + 1)

PyIter(s) == PyIterFrom(s, 0)

\* ---- hybrid ----

\* hybrid_search asks both rankers for max(top_k, 20) candidates
HybridPool == 20

Indices(lst) == [k \in 1..Len(lst) |-> lst[k].i]

Scores(lst) == {lst[k].s : k \in 1..Len(lst)}

MaxOf(S) == CHOOSE x \in S : \A y \in S : x >= y

\* norm(lst) of hybrid_search: the dictionary i -> (s - mn) / rng, kept as the
\* numerators s - mn and the common denominator rng = (mx - mn) or 1.0
Norm(lst) ==
    LET Scale(mx, mn) ==
            [num |-> [k \in 1..Len(lst) |-> [i |-> lst[k].i, s |-> lst[k].s - mn]],
             rng |-> IF mx - mn = 0 THEN 1 ELSE mx - mn]
    IN IF lst = << >> THEN [num |-> << >>, rng |-> 1]
       ELSE Scale(MaxOf(Scores(lst)), MinOf(Scores(lst)))

\* d.get(i, 0.0) on the numerators
NormGet(nrm, i) ==
    IF \E k \in 1..Len(nrm.num) : nrm.num[k].i = i
    THEN nrm.num[CHOOSE k \in 1..Len(nrm.num) : nrm.num[k].i = i].s
    ELSE 0

\* The fusion of hybrid_search for alpha = a_num / a_den.  The blended score
\* alpha * sem + (1 - alpha) * bm is kept multiplied by the positive constant
\* a_den * rng_sem * rng_bm, which changes neither order nor ties.
Fuse(sem, bm, a_num, a_den, top_k) ==
    LET Blend(s_sem, s_bm, keys) ==
            [k \in 1..Len(keys) |->
                [i |-> keys[k],
                 s |-> a_num * NormGet(s_sem, keys[k]) * s_bm.rng
                        + (a_den - a_num) * NormGet(s_bm, keys[k]) * s_sem.rng]]
        fused == Blend(Norm(sem), Norm(bm),
                       PyIter(PyUnion(PySetOf(Indices(sem)), PySetOf(Indices(bm)))))
    IN Take(SortDesc(fused), top_k)

\* _InMemoryIndex.hybrid_search: [pairs, chunks, tabs]
hybrid_search(cs, tabs, query, top_k, a_num, a_den, flt) ==
    LET Both(sem, bm) ==
            [pairs  |-> Fuse(sem.pairs, bm.pairs, a_num, a_den, top_k),
             chunks |-> sem.chunks,
             tabs   |-> bm.tabs]
        Lexical(sem) ==
            Both(sem, bm25_search(sem.chunks, tabs, query, Max2(top_k, HybridPool), flt))
    IN Lexical(semantic_search(cs, query, Max2(top_k, HybridPool), flt))

\* ------------------------------------------------------------------------
\* State
\* ------------------------------------------------------------------------

VARIABLES
    chunks,     \* _InMemoryIndex.chunks : sequence of _Chunk
    docs,       \* _InMemoryIndex.docs : doc records in dictionary order
    tabs,       \* _InMemoryIndex._built, _tf, _df, _avgdl
    hits,       \* the hits returned by the operation just run, if a search
    ret,        \* what the last operation returned
    avsDocs,    \* ChineseRAGEngineAVS.docs collection
    avsChunks,  \* ChineseRAGEngineAVS.chunks collection
    inp,        \* the arguments of a fusion / selection function
    out         \* and what it returned

vars == <<chunks, docs, tabs, hits, ret, avsDocs, avsChunks, inp, out>>

memVars == <<chunks, docs, tabs, hits, ret>>
avsVars == <<avsDocs, avsChunks>>
funVars == <<inp, out>>

NoRet == [op |-> "none"]

\* ------------------------------------------------------------------------
\* _InMemoryIndex : store operations
\* ------------------------------------------------------------------------

DocIndex(ds, doc_id) ==
    IF \E k \in 1..Len(ds) : ds[k].doc_id = doc_id
    THEN CHOOSE k \in 1..Len(ds) : ds[k].doc_id = doc_id
    ELSE 0

\* docs[doc_id] = rec : a dictionary keeps the position of a key it already has
DictSet(ds, rec) ==
    IF DocIndex(ds, rec.doc_id) = 0 THEN Append(ds, rec)
    ELSE [ds EXCEPT ![DocIndex(ds, rec.doc_id)] = rec]

\* docs.pop(doc_id, None)
RECURSIVE DictPop(_, _)
DictPop(ds, doc_id) ==
    IF ds = << >> THEN << >>
    ELSE (IF Head(ds).doc_id = doc_id THEN << >> ELSE <<Head(ds)>>)
           \o DictPop(Tail(ds), doc_id)

\* the namespace and tags add() registers for the document
DocNs(pcs) == IF pcs = << >> THEN NoNs ELSE pcs[Len(pcs)].ns

DocTags(pcs) == UNION {pcs[k].tags : k \in 1..Len(pcs)}

AsChunk(pc) ==
    [id |-> pc.id, text |-> pc.text, ns |-> pc.ns, tags |-> pc.tags,
     order |-> pc.order, disabled |-> pc.disabled, vec |-> NoVec]

\* _InMemoryIndex.add: [chunks, docs, n]
add(cs, ds, doc) ==
    LET new == [k \in 1..Len(doc.chunks) |-> AsChunk(doc.chunks[k])]
    IN [chunks |-> cs \o new,
        docs   |-> DictSet(ds, [doc_id |-> doc.doc_id,
                                ns     |-> DocNs(doc.chunks),
                                tags   |-> DocTags(doc.chunks),
                                count  |-> Len(doc.chunks)]),
        n      |-> Len(cs \o new) - Len(cs)]

RECURSIVE RemoveDoc(_, _)
RemoveDoc(cs, doc_id) ==
    IF cs = << >> THEN << >>
    ELSE (IF StartsWithDoc(Head(cs).id, doc_id) THEN << >> ELSE <<Head(cs)>>)
           \o RemoveDoc(Tail(cs), doc_id)

\* _InMemoryIndex.delete_doc: [chunks, docs, n]
delete_doc(cs, ds, doc_id) ==
    LET kept == RemoveDoc(cs, doc_id)
    IN [chunks |-> kept, docs |-> DictPop(ds, doc_id), n |-> Len(cs) - Len(kept)]

\* position of the first chunk with that id, 0 when there is none
FirstWithId(cs, cid) ==
    IF \E k \in 1..Len(cs) : cs[k].id = cid
    THEN MinOf({k \in 1..Len(cs) : cs[k].id = cid})
    ELSE 0

\* _InMemoryIndex.set_chunk_disabled: [chunks, found]
set_chunk_disabled(cs, cid, flag) ==
    LET k == FirstWithId(cs, cid)
    IN IF k = 0 THEN [chunks |-> cs, found |-> FALSE]
       ELSE [chunks |-> [cs EXCEPT ![k].disabled = flag], found |-> TRUE]

\* _InMemoryIndex.export_json, as the payload the export endpoint serialises
export_json(cs, ds) ==
    [docs   |-> ds,
     chunks |-> [k \in 1..Len(cs) |->
                   [id |-> cs[k].id, text |-> cs[k].text,
                    meta |-> [ns |-> cs[k].ns, tags |-> cs[k].tags,
                              order |-> cs[k].order,
                              disabled |-> cs[k].disabled]]]]

RECURSIVE DictOf(_)
DictOf(ds) ==
    IF ds = << >> THEN << >>
    ELSE DictSet(DictOf(SubSeq(ds, 1, Len(ds) - 1)), ds[Len(ds)])

\* _InMemoryIndex.import_json: [chunks, docs]
import_json(payload) ==
    [docs   |-> DictOf(payload.docs),
     chunks |-> [k \in 1..Len(payload.chunks) |->
                   [id |-> payload.chunks[k].id,
                    text |-> payload.chunks[k].text,
                    ns |-> payload.chunks[k].meta.ns,
                    tags |-> payload.chunks[k].meta.tags,
                    order |-> payload.chunks[k].meta.order,
                    disabled |-> payload.chunks[k].meta.disabled,
                    vec |-> NoVec]]]

\* ChineseRAGEngine.search: [hits, chunks, tabs]; alpha = a_num / a_den
search(cs, tb, q) ==
    LET Semantic(x) == [pairs |-> x.pairs, chunks |-> x.chunks, tabs |-> tb]
        Lexical(x)  == [pairs |-> x.pairs, chunks |-> cs, tabs |-> x.tabs]
        Hits(r) ==
            [hits   |-> [k \in 1..Len(r.pairs) |->
                           [id    |-> r.chunks[r.pairs[k].i + 1].id,
                            text  |-> r.chunks[r.pairs[k].i + 1].text,
                            score |-> r.pairs[k].s,
                            i     |-> r.pairs[k].i]],
             chunks |-> r.chunks,
             tabs   |-> r.tabs]
    IN IF q.top_k <= 0 THEN [hits |-> << >>, chunks |-> cs, tabs |-> tb]
       ELSE Hits(IF q.mode = "semantic"
                 THEN Semantic(semantic_search(cs, q.text, q.top_k, q.flt))
                 ELSE IF q.mode = "bm25"
                 THEN Lexical(bm25_search(cs, tb, q.text, q.top_k, q.flt))
                 ELSE hybrid_search(cs, tb, q.text, q.top_k, q.a_num, q.a_den, q.flt))

\* ------------------------------------------------------------------------
\* Inputs
\* ------------------------------------------------------------------------

\* most chunks the stores may hold
MaxChunks == 2

\* "a"
TxA == Rep("a", 1)
\* "b b a"
TxB == <<Run("b", 1), Run(" ", 1), Run("b", 1), Run(" ", 1), Run("a", 1)>>
\* 400 times "c", a blank line, 400 times "d": two paragraphs that do not fit
\* one chunk
TxLong == <<Run("c", 400), Run("\n", 2), Run("d", 400)>>

\* the ingest requests callers send: [doc_id, text, ns]
Req(d, t, n) == [doc_id |-> d, text |-> t, ns |-> n]

Requests ==
    {Req(<<"a">>, TxA, NoNs),
     Req(<<"a">>, TxLong, NoNs),
     Req(<<"a", "b">>, TxA, "n"),
     Req(<<"a", "b">>, EmptyStr, "n")}

DocIds == {r.doc_id : r \in Requests}

Namespaces == {r.ns : r \in Requests}

\* "a" and 400 times "d"
Queries == {TxA, Rep("d", 400)}

TopKs == {1, 2}

\* alpha in {0, 1/2, 1}
AlphaDen == 2

Filters == {[ns |-> n, tags_any |-> {}, tags_all |-> {}] : n \in Namespaces}

Query(t, k, m, a, f) ==
    [text |-> t, top_k |-> k, mode |-> m, a_num |-> a, a_den |-> AlphaDen, flt |-> f]

\* alpha only matters to a hybrid search
SearchQueries ==
    {Query(t, k, m, AlphaDen, f) :
        t \in Queries, k \in TopKs, m \in {"semantic", "bm25"}, f \in Filters}
    \cup
    {Query(t, k, "hybrid", a, f) :
        t \in Queries, k \in TopKs, a \in 0..AlphaDen, f \in Filters}

\* Payloads a caller can hold: what export_json returns for a store that
\* ingested one request and, possibly, disabled its first chunk
StoreOf(r) == add(<< >>, << >>, process_text(r.text, r.doc_id, r.ns, {}))

Payloads ==
    {export_json(StoreOf(r).chunks, StoreOf(r).docs) : r \in Requests}
    \cup
    {export_json(set_chunk_disabled(StoreOf(r).chunks,
                                    ChunkId(r.doc_id, 0), TRUE).chunks,
                 StoreOf(r).docs) : r \in Requests}

\* ------------------------------------------------------------------------
\* The in-memory engine (ChineseRAGEngine)
\* ------------------------------------------------------------------------

AvsIdle == avsDocs = << >> /\ avsChunks = << >>

FunIdle == inp = [f |-> "none"] /\ out = << >>

Init ==
    /\ chunks = << >>
    /\ docs = << >>
    /\ tabs = NoTables
    /\ hits = << >>
    /\ ret = NoRet
    /\ AvsIdle
    /\ FunIdle

\* upsert_text -> process_text -> add_document
Ingest(rq) ==
    LET doc == process_text(rq.text, rq.doc_id, rq.ns, {})
        r   == add(chunks, docs, doc)
    IN /\ Len(r.chunks) <= MaxChunks
       /\ chunks' = r.chunks
       /\ docs' = r.docs
       /\ tabs' = [tabs EXCEPT !.built = FALSE]
       /\ ret' = [op |-> "ingest", doc_id |-> rq.doc_id, n |-> Len(doc.chunks)]
       /\ hits' = << >>
       /\ UNCHANGED <<avsVars, funVars>>

DeleteDocument(d) ==
    LET r == delete_doc(chunks, docs, d)
    IN /\ chunks' = r.chunks
       /\ docs' = r.docs
       /\ tabs' = [tabs EXCEPT !.built = FALSE]
       /\ ret' = [op |-> "delete", doc_id |-> d, n |-> r.n]
       /\ hits' = << >>
       /\ UNCHANGED <<avsVars, funVars>>

SetChunkDisabled(cid, flag) ==
    LET r == set_chunk_disabled(chunks, cid, flag)
    IN /\ chunks' = r.chunks
       /\ ret' = [op |-> "disable", id |-> cid, flag |-> flag, found |-> r.found]
       /\ hits' = << >>
       /\ UNCHANGED <<docs, tabs, avsVars, funVars>>

Search(q) ==
    LET Return(r) ==
            /\ chunks' = r.chunks
            /\ tabs' = r.tabs
            /\ hits' = r.hits
            /\ ret' = [op |-> "search"]
            /\ UNCHANGED <<docs, avsVars, funVars>>
    IN Return(search(chunks, tabs, q))

\* import_json of a payload exported earlier, by this engine or another one
Import(payload) ==
    LET r == import_json(payload)
    IN /\ Len(r.chunks) <= MaxChunks
       /\ chunks' = r.chunks
       /\ docs' = r.docs
       /\ tabs' = [tabs EXCEPT !.built = FALSE]
       /\ ret' = [op |-> "import"]
       /\ hits' = << >>
       /\ UNCHANGED <<avsVars, funVars>>

Next ==
    \/ \E rq \in Requests : Ingest(rq)
    \/ \E d \in DocIds : DeleteDocument(d)
    \/ \E d \in DocIds, i \in 0..1, f \in BOOLEAN : SetChunkDisabled(ChunkId(d, i), f)
    \/ \E q \in SearchQueries : Search(q)
    \/ \E p \in Payloads : Import(p)

Spec == Init /\ [][Next]_vars

\* ------------------------------------------------------------------------
\* The Atlas-backed engine (ChineseRAGEngineAVS)
\* ------------------------------------------------------------------------

\* The two MongoDB collections are sequences in insertion order with unique
\* _id: docs holds [doc_id (the _id), ns, tags, count], chunks holds
\* [id (the _id), doc_id, text, ns, tags, disabled, meta].

HasId(coll, id) == \E k \in 1..Len(coll) : coll[k].id = id

\* insert_many(to_ins, ordered=False) with the duplicate-key errors ignored:
\* every document whose _id is free is inserted
RECURSIVE InsertMany(_, _)
InsertMany(coll, to_ins) ==
    IF to_ins = << >> THEN coll
    ELSE InsertMany(IF HasId(coll, Head(to_ins).id) THEN coll
                    ELSE Append(coll, Head(to_ins)),
                    Tail(to_ins))

\* update_one({"_id": doc_id}, {"$set": {namespace, tags},
\*             "$setOnInsert": {count: 0, ...}}, upsert=True)
UpsertDoc(dcs, doc_id, ns, tags) ==
    IF DocIndex(dcs, doc_id) = 0
    THEN Append(dcs, [doc_id |-> doc_id, ns |-> ns, tags |-> tags, count |-> 0])
    ELSE [dcs EXCEPT ![DocIndex(dcs, doc_id)].ns = ns,
                     ![DocIndex(dcs, doc_id)].tags = tags]

\* update_one({"_id": doc_id}, {"$inc": {"count": n}})
IncCount(dcs, doc_id, n) ==
    IF DocIndex(dcs, doc_id) = 0 THEN dcs
    ELSE [dcs EXCEPT ![DocIndex(dcs, doc_id)].count = @ + n]

\* ChineseRAGEngineAVS.add_document: [docs, chunks, n]
avs_add_document(dcs, chs, doc) ==
    LET to_ins == [k \in 1..Len(doc.chunks) |->
                     [id       |-> doc.chunks[k].id,
                      doc_id   |-> doc.doc_id,
                      text     |-> doc.chunks[k].text,
                      ns       |-> doc.chunks[k].ns,
                      tags     |-> doc.chunks[k].tags,
                      disabled |-> doc.chunks[k].disabled,
                      meta     |-> [ns |-> doc.chunks[k].ns,
                                    tags |-> doc.chunks[k].tags,
                                    order |-> doc.chunks[k].order,
                                    disabled |-> doc.chunks[k].disabled]]]
        d1 == UpsertDoc(dcs, doc.doc_id, DocNs(doc.chunks), DocTags(doc.chunks))
    IN [docs   |-> IF to_ins = << >> THEN d1
                   ELSE IncCount(d1, doc.doc_id, Len(to_ins)),
        chunks |-> InsertMany(chs, to_ins),
        n      |-> Len(to_ins)]

RECURSIVE DeleteMany(_, _)
DeleteMany(chs, doc_id) ==
    IF chs = << >> THEN << >>
    ELSE (IF Head(chs).doc_id = doc_id THEN << >> ELSE <<Head(chs)>>)
           \o DeleteMany(Tail(chs), doc_id)

\* ChineseRAGEngineAVS.delete_document: [docs, chunks, n]
avs_delete_document(dcs, chs, doc_id) ==
    LET kept == DeleteMany(chs, doc_id)
    IN [docs |-> DictPop(dcs, doc_id), chunks |-> kept, n |-> Len(chs) - Len(kept)]

\* ChineseRAGEngineAVS.set_chunk_disabled: update_one reports in
\* modified_count whether the matched document was changed by the $set
avs_set_chunk_disabled(chs, cid, flag) ==
    LET k == FirstWithId(chs, cid)
        modified_count == IF k # 0 /\ chs[k].disabled # flag THEN 1 ELSE 0
    IN [chunks |-> IF k = 0 THEN chs ELSE [chs EXCEPT ![k].disabled = flag],
        found  |-> modified_count > 0]

\* ChineseRAGEngineAVS.export_json
avs_export_json(dcs, chs) ==
    [docs   |-> dcs,
     chunks |-> [k \in 1..Len(chs) |->
                   [id |-> chs[k].id, text |-> chs[k].text, meta |-> chs[k].meta]]]

\* by_doc of import_json: the first segments of the chunk ids, in the order
\* in which they first occur
RECURSIVE DocKeys(_, _)
DocKeys(pcs, seen) ==
    IF pcs = << >> THEN << >>
    ELSE LET d == FirstSegment(Head(pcs).id)
         IN (IF d \in seen THEN << >> ELSE <<d>>)
              \o DocKeys(Tail(pcs), seen \cup {d})

RECURSIVE ChunksOfKey(_, _)
ChunksOfKey(pcs, d) ==
    IF pcs = << >> THEN << >>
    ELSE (IF FirstSegment(Head(pcs).id) = d THEN <<Head(pcs)>> ELSE << >>)
           \o ChunksOfKey(Tail(pcs), d)

\* "\n\n".join(c["text"] for c in chunks)
RECURSIVE JoinBlank(_)
JoinBlank(pcs) ==
    IF pcs = << >> THEN EmptyStr
    ELSE IF Len(pcs) = 1 THEN pcs[1].text
    ELSE SCat(SCat(pcs[1].text, Rep("\n", 2)), JoinBlank(Tail(pcs)))

MetaNs(pcs) == IF pcs = << >> THEN NoNs ELSE pcs[Len(pcs)].meta.ns

MetaTags(pcs) == UNION {pcs[k].meta.tags : k \in 1..Len(pcs)}

\* the loop of import_json over by_doc.items(): st = [docs, chunks]
RECURSIVE ImportLoop(_, _, _)
ImportLoop(keys, pcs, st) ==
    IF keys = << >> THEN st
    ELSE LET mine == ChunksOfKey(pcs, Head(keys))
             doc  == process_text(JoinBlank(mine), Head(keys),
                                  MetaNs(mine), MetaTags(mine))
             r    == avs_add_document(st.docs, st.chunks, doc)
         IN ImportLoop(Tail(keys), pcs, [docs |-> r.docs, chunks |-> r.chunks])

\* ChineseRAGEngineAVS.import_json: [docs, chunks]
avs_import_json(dcs, chs, payload) ==
    ImportLoop(DocKeys(payload.chunks, {}), payload.chunks,
               [docs |-> dcs, chunks |-> chs])

\* ChineseRAGEngineAVS.list_documents (all namespaces): the doc ids listed
avs_list_documents(dcs) == {dcs[k].doc_id : k \in 1..Len(dcs)}

MemIdle == chunks = << >> /\ docs = << >> /\ tabs = NoTables /\ hits = << >>

AvsStoreOf(r) ==
    avs_add_document(<< >>, << >>, process_text(r.text, r.doc_id, r.ns, {}))

\* payloads exported by an Atlas-backed store that ingested one request
AvsPayloads ==
    {avs_export_json(AvsStoreOf(r).docs, AvsStoreOf(r).chunks) : r \in Requests}

\* largest chunk count a docs record may show (add_document adds to it on
\* every ingest of the document)
MaxCount == 3

CountsBounded(dcs) == \A k \in 1..Len(dcs) : dcs[k].count <= MaxCount

InitAVS ==
    /\ avsDocs = << >>
    /\ avsChunks = << >>
    /\ ret = NoRet
    /\ MemIdle
    /\ FunIdle

AvsIngest(rq) ==
    LET doc == process_text(rq.text, rq.doc_id, rq.ns, {})
        r   == avs_add_document(avsDocs, avsChunks, doc)
    IN /\ Len(r.chunks) <= MaxChunks
       /\ CountsBounded(r.docs)
       /\ avsDocs' = r.docs
       /\ avsChunks' = r.chunks
       /\ ret' = [op |-> "ingest", doc_id |-> rq.doc_id, n |-> r.n]
       /\ UNCHANGED <<chunks, docs, tabs, hits, funVars>>

AvsDeleteDocument(d) ==
    LET r == avs_delete_document(avsDocs, avsChunks, d)
    IN /\ avsDocs' = r.docs
       /\ avsChunks' = r.chunks
       /\ ret' = [op |-> "delete", doc_id |-> d, n |-> r.n]
       /\ UNCHANGED <<chunks, docs, tabs, hits, funVars>>

AvsSetChunkDisabled(cid, flag) ==
    LET r == avs_set_chunk_disabled(avsChunks, cid, flag)
    IN /\ avsChunks' = r.chunks
       /\ ret' = [op |-> "disable", id |-> cid, flag |-> flag, found |-> r.found]
       /\ UNCHANGED <<avsDocs, chunks, docs, tabs, hits, funVars>>

AvsImport(payload) ==
    LET r == avs_import_json(avsDocs, avsChunks, payload)
    IN /\ Len(r.chunks) <= MaxChunks
       /\ CountsBounded(r.docs)
       /\ avsDocs' = r.docs
       /\ avsChunks' = r.chunks
       /\ ret' = [op |-> "import", payload |-> payload]
       /\ UNCHANGED <<chunks, docs, tabs, hits, funVars>>

NextAVS ==
    \/ \E rq \in Requests : AvsIngest(rq)
    \/ \E d \in DocIds : AvsDeleteDocument(d)
    \/ \E d \in DocIds, i \in 0..1, f \in BOOLEAN :
          AvsSetChunkDisabled(ChunkId(d, i), f)
    \/ \E p \in AvsPayloads : AvsImport(p)

SpecAVS == InitAVS /\ [][NextAVS]_vars

\* ------------------------------------------------------------------------
\* Claims about the chunk stores
\* ------------------------------------------------------------------------

\* the document a chunk id names: everything before its last ":"
Owner(cid) == SubSeq(cid, 1, Len(cid) - 1)

IdsOf(coll) == {coll[k].id : k \in 1..Len(coll)}

DocIdsOf(dcs) == {dcs[k].doc_id : k \in 1..Len(dcs)}

\* C1: no hit of a search (semantic, bm25 or hybrid) of the in-memory engine
\* carries the id of a chunk that set_chunk_disabled left disabled.
C1_DisabledNeverReturned ==
    \A k \in 1..Len(hits) :
        ~\E j \in 1..Len(chunks) : chunks[j].id = hits[k].id /\ chunks[j].disabled

\* C2: set_chunk_disabled of the Atlas-backed engine returns true exactly
\* when a chunk has the id, whatever its disabled flag was before the call.
C2_FoundIffStoredAVS ==
    ret.op = "disable" => (ret.found <=> HasId(avsChunks, ret.id))

\* C3: importing what export returns into an empty Atlas-backed store gives
\* as many documents, as many chunks, and the same text under every chunk id.
C3_RoundTripAVS ==
    LET snap == avs_export_json(avsDocs, avsChunks)
        back == avs_import_json(<< >>, << >>, snap)
    IN /\ Len(back.docs) = Len(avsDocs)
       /\ Len(back.chunks) = Len(avsChunks)
       /\ \A k \in 1..Len(avsChunks) :
            \E j \in 1..Len(back.chunks) :
                /\ back.chunks[j].id = avsChunks[k].id
                /\ back.chunks[j].text = avsChunks[k].text

\* C4: after import the Atlas-backed store holds exactly the documents and
\* chunks of the snapshot; nothing stored before and absent from the
\* snapshot remains.
C4_ImportReplacesAVS ==
    ret.op = "import" =>
        /\ avs_list_documents(avsDocs) = DocIdsOf(ret.payload.docs)
        /\ IdsOf(avsChunks) = IdsOf(ret.payload.chunks)

\* C5: delete_document(d) of the in-memory engine removes the chunks of
\* document d, all of them and no chunk of another document, and returns
\* their number; for a d that was never ingested nothing changes and it
\* returns 0.
RECURSIVE WithoutOwner(_, _)
WithoutOwner(cs, d) ==
    IF cs = << >> THEN << >>
    ELSE (IF Owner(Head(cs).id) = d THEN << >> ELSE <<Head(cs)>>)
           \o WithoutOwner(Tail(cs), d)

C5_DeleteExactly ==
    [][\A d \in DocIds :
          DeleteDocument(d) =>
             /\ chunks' = WithoutOwner(chunks, d)
             /\ ret'.n = Len(chunks) - Len(WithoutOwner(chunks, d))
             /\ (d \notin DocIdsOf(docs) =>
                    chunks' = chunks /\ docs' = docs /\ ret'.n = 0)]_vars

\* C6: no two stored chunks of the in-memory engine have the same chunk_id,
\* and every chunk belongs to exactly one registered document.
C6_UniqueChunkIds ==
    /\ \A j, k \in 1..Len(chunks) : chunks[j].id = chunks[k].id => j = k
    /\ \A k \in 1..Len(chunks) :
          Cardinality({d \in DocIdsOf(docs) : StartsWithDoc(chunks[k].id, d)}) = 1

\* ------------------------------------------------------------------------
\* Hybrid search against semantic-only and lexical-only search
\* ------------------------------------------------------------------------

\* largest corpus, and most chunks of it that are left enabled
MaxCorpus == 9
MaxPass == 2

\* "c"
TxC == Rep("c", 1)

CorpusTexts == {TxA, TxB, TxC}

\* The store after ingesting n one-chunk documents "0", "1", ... and
\* disabling every chunk outside the positions of txt: chunk k carries
\* txt[k] when k is in DOMAIN txt, and is a disabled "a" otherwise.
CorpusChunk(k, txt) ==
    [id       |-> <<IdxStr(k - 1), "0">>,
     text     |-> IF k \in DOMAIN txt THEN txt[k] ELSE TxA,
     ns       |-> NoNs,
     tags     |-> {},
     order    |-> 0,
     disabled |-> k \notin DOMAIN txt,
     vec      |-> NoVec]

Corpus(n, txt) == [k \in 1..n |-> CorpusChunk(k, txt)]

CorpusDocs(n) ==
    [k \in 1..n |-> [doc_id |-> <<IdxStr(k - 1)>>, ns |-> NoNs, tags |-> {}, count |-> 1]]

Enabled(n) == {P \in SUBSET (1..n) : Cardinality(P) <= MaxPass}

NoFilter == [ns |-> NoNs, tags_any |-> {}, tags_all |-> {}]

InitHybrid ==
    /\ \E n \in 1..MaxCorpus :
         \E P \in Enabled(n) :
            \E txt \in [P -> CorpusTexts] :
               /\ chunks = Corpus(n, txt)
               /\ docs = CorpusDocs(n)
    /\ tabs = NoTables
    /\ hits = << >>
    /\ ret = NoRet
    /\ AvsIdle
    /\ FunIdle

HitIds(hs) == [k \in 1..Len(hs) |-> hs[k].id]

\* one semantic, one bm25 and one hybrid search with the same query text,
\* filter and top_k, run one after the other on the engine
Compare(text, top_k, a_num) ==
    LET Return(r1, r2, r3) ==
            /\ chunks' = r3.chunks
            /\ tabs' = r3.tabs
            /\ hits' = r3.hits
            /\ ret' = [op |-> "search"]
            /\ inp' = [f |-> "compare", text |-> text, top_k |-> top_k, a_num |-> a_num]
            /\ out' = [semantic |-> HitIds(r1.hits), bm25 |-> HitIds(r2.hits),
                       hybrid |-> HitIds(r3.hits)]
            /\ UNCHANGED <<docs, avsVars>>
        Hybrid(r1, r2) ==
            Return(r1, r2, search(r2.chunks, r2.tabs,
                                  Query(text, top_k, "hybrid", a_num, NoFilter)))
        Lexical(r1) ==
            Hybrid(r1, search(r1.chunks, r1.tabs,
                              Query(text, top_k, "bm25", a_num, NoFilter)))
    IN /\ out = << >>
       /\ Lexical(search(chunks, tabs, Query(text, top_k, "semantic", a_num, NoFilter)))

NextHybrid ==
    \E text \in {TxA}, top_k \in TopKs, a_num \in {0, AlphaDen} :
        Compare(text, top_k, a_num)

SpecHybrid == InitHybrid /\ [][NextHybrid]_vars

\* C7: hybrid search with alpha = 1.0 returns the chunk ids of semantic-only
\* search with the same query, filter and top_k, in the same order.
C7_AlphaOneIsSemantic ==
    (inp.f = "compare" /\ inp.a_num = AlphaDen) => out.hybrid = out.semantic

\* C8: hybrid search with alpha = 0.0 returns the chunk ids of lexical-only
\* (BM25) search with the same query, filter and top_k, in the same order.
C8_AlphaZeroIsLexical ==
    (inp.f = "compare" /\ inp.a_num = 0) => out.hybrid = out.bm25

\* ------------------------------------------------------------------------
\* Reciprocal rank fusion (app/pipelines/rag_plus.py, app/util/text.py)
\* ------------------------------------------------------------------------

\* the one character "…" that take_head_para appends to a cut text
Ellipsis == Rep("...", 1)

\* take_head_para(text, limit_chars)
take_head_para(text, limit_chars) ==
    LET t == normalize_ws(text)
    IN IF SLen(t) > limit_chars THEN SCat(SHead(t, limit_chars), Ellipsis) ELSE t

\* Retrieved(content, score, meta)
Retrieved(content, score, meta) ==
    [content |-> content, score |-> score, meta |-> meta]

\* key(it) of rrf_fuse
key(it) == Lower(take_head_para(it.content, 96))

\* c of rrf_fuse, and its default k
rrf_c == 60
rrf_k == 60

MaxRank == 3
MaxLists == 2

\* 1.0 / (c + rnk) is kept as the integer RrfUnit / (c + rnk), where RrfUnit
\* is the product of c + 1, ..., c + n for the longest list length n: every
\* score is multiplied by the same positive constant.
RECURSIVE RrfUnit(_)
RrfUnit(n) == IF n = 0 THEN 1 ELSE (rrf_c + n) * RrfUnit(n - 1)

RECURSIVE LongestOf(_)
LongestOf(rank_lists) ==
    IF rank_lists = << >> THEN 0
    ELSE Max2(Len(Head(rank_lists)), LongestOf(Tail(rank_lists)))

\* The dictionaries items and scores have the same keys in the same insertion
\* order; they are kept as one sequence of [key, it, s].
\* items[kstr] = it ; scores[kstr] = scores.get(kstr, 0.0) + w
RECURSIVE RrfPut(_, _, _, _)
RrfPut(d, kstr, it, w) ==
    IF d = << >> THEN <<[key |-> kstr, it |-> it, s |-> w]>>
    ELSE IF Head(d).key = kstr
         THEN <<[key |-> kstr, it |-> it, s |-> Head(d).s + w]>> \o Tail(d)
         ELSE <<Head(d)>> \o RrfPut(Tail(d), kstr, it, w)

\* for rnk, it in enumerate(rl, start=1)
RECURSIVE RrfList(_, _, _, _)
RrfList(d, rl, rnk, unit) ==
    IF rnk > Len(rl) THEN d
    ELSE RrfList(RrfPut(d, key(rl[rnk]), rl[rnk], unit \div (rrf_c + rnk)),
                 rl, rnk + 1, unit)

\* for rl in rank_lists
RECURSIVE RrfLists(_, _, _)
RrfLists(d, rank_lists, unit) ==
    IF rank_lists = << >> THEN d
    ELSE RrfLists(RrfList(d, Head(rank_lists), 1, unit), Tail(rank_lists), unit)

\* scores[kstr]
RrfScore(d, kstr) == d[CHOOSE j \in 1..Len(d) : d[j].key = kstr].s

\* rrf_fuse(rank_lists, k) for k >= 0
rrf_fuse(rank_lists, k) ==
    LET d      == RrfLists(<< >>, rank_lists, RrfUnit(LongestOf(rank_lists)))
        values == [j \in 1..Len(d) |-> [it |-> d[j].it, s |-> RrfScore(d, key(d[j].it))]]
        fused  == SortDesc(values)
    IN Take([j \in 1..Len(fused) |-> fused[j].it], k)

\* Retrieved items to fuse: "x"; "b" and " B", which differ but share the
\* key "b"; and two texts of 97 and 120 "d", which share their first 96
\* characters and so the key of 96 "d" and the ellipsis.
RrfPool ==
    { Retrieved(Rep("x", 1), 0, "x"),
      Retrieved(Rep("b", 1), 0, "y1"),
      Retrieved(SCat(Rep(" ", 1), Rep("B", 1)), 0, "y2"),
      Retrieved(Rep("d", 97), 0, "l1"),
      Retrieved(Rep("d", 120), 0, "l2") }

RECURSIVE SeqsUpTo(_, _)
SeqsUpTo(S, n) ==
    IF n = 0 THEN {<< >>}
    ELSE LET shorter == SeqsUpTo(S, n - 1)
         IN shorter \cup {Append(q, x) : q \in shorter, x \in S}

\* the ranked lists of at most n items
RankLists(n) == SeqsUpTo(RrfPool, n)

\* the collections of at most m ranked lists of at most n items
RankListSets(m, n) == SeqsUpTo(RankLists(n), m)

InitRRF ==
    /\ chunks = << >>
    /\ docs = << >>
    /\ tabs = NoTables
    /\ hits = << >>
    /\ ret = NoRet
    /\ AvsIdle
    /\ \E rank_lists \in RankListSets(MaxLists, MaxRank) :
          inp = [f |-> "rrf_fuse", rank_lists |-> rank_lists]
    /\ out = << >>

RrfFuse(k) ==
    /\ inp.f = "rrf_fuse"
    /\ out = << >>
    /\ out' = [k |-> k, fused |-> rrf_fuse(inp.rank_lists, k)]
    /\ UNCHANGED <<memVars, avsVars, inp>>

NextRRF == \E k \in {1, 2, rrf_k} : RrfFuse(k)

SpecRRF == InitRRF /\ [][NextRRF]_vars

\* C9: when the ranked lists passed to rrf_fuse are not empty and the same
\* item X is at position 1 of every list, X is the first element of the fused
\* output, whatever the other items of the lists are (k >= 1).  Items are
\* compared by key, the identity rrf_fuse itself gives them.
C9_FirstEverywhereIsFirst ==
    (/\ inp.f = "rrf_fuse"
     /\ out # << >>
     /\ inp.rank_lists # << >>
     /\ \A j \in 1..Len(inp.rank_lists) :
           /\ inp.rank_lists[j] # << >>
           /\ inp.rank_lists[j][1] = inp.rank_lists[1][1])
    => (out.fused # << >> /\ key(out.fused[1]) = key(inp.rank_lists[1][1]))

\* ------------------------------------------------------------------------
\* Maximal marginal relevance (app/pipelines/rag_plus.py)
\* ------------------------------------------------------------------------

\* cos(a, b) of mmr_select: np.dot(a, b) / (norm(a) * norm(b) + 1e-8).  The
\* vectors of MmrVectors have norm 5 or 0, so the value is Dot(a, b) in units
\* of 1 / (25 + 1e-8), and 0 when one of the two is the zero vector.
cos(a, b) == Dot(a, b)

Min2(a, b) == IF a <= b THEN a ELSE b

\* max(order, key = score) : the first element, in iteration order, that no
\* other element beats
RECURSIVE MaxByKey(_, _, _)
MaxByKey(order, score, best) ==
    IF order = << >> THEN best
    ELSE MaxByKey(Tail(order), score,
                  IF score[Head(order)] > score[best] THEN Head(order) ELSE best)

\* div of mmr_score: starts at 0.0 and takes the largest cosine between
\* candidate j and a selected candidate
RECURSIVE MmrDiv(_, _, _, _)
MmrDiv(cand_vecs, selected_ix, j, div) ==
    IF selected_ix = << >> THEN div
    ELSE MmrDiv(cand_vecs, Tail(selected_ix), j,
                Max2(div, cos(cand_vecs[j + 1], cand_vecs[Head(selected_ix) + 1])))

\* the ranking mmr_select would use if it ignored relevance to the query
mmr_score_redundancy_only(sim_to_q, cand_vecs, selected_ix, j, l_num, l_den) ==
    0 - l_den * MmrDiv(cand_vecs, selected_ix, j, 0)

\* mmr_score(j) = lambda_ * sim_to_q[j] - (1 - lambda_) * div for
\* lambda_ = l_num / l_den, multiplied by l_den
mmr_score(sim_to_q, cand_vecs, selected_ix, j, l_num, l_den) ==
    l_num * sim_to_q[j + 1] - (l_den - l_num) * MmrDiv(cand_vecs, selected_ix, j, 0)

\* cand_set.remove(i) : the other entries keep their slots
Without(order, i) == SelectSeq(order, LAMBDA x : x # i)

\* The while loop of mmr_select.  cand_set is the list of the set's entries in
\* iteration order.  The loop never appends to selected.
RECURSIVE MmrLoop(_, _, _, _, _, _, _, _, _)
MmrLoop(selected, selected_ix, cand_set, sim_to_q, cand_vecs, texts, top_k, l_num, l_den) ==
    IF ~(Len(selected) < Min2(top_k, Len(texts)) /\ cand_set # << >>)
    THEN selected_ix
    ELSE LET score == IF selected_ix = << >>
                      THEN [j \in Range(cand_set) |-> sim_to_q[j + 1]]
                      ELSE [j \in Range(cand_set) |->
                               mmr_score(sim_to_q, cand_vecs, selected_ix, j, l_num, l_den)]
             i == MaxByKey(cand_set, score, Head(cand_set))
         IN MmrLoop(selected, Append(selected_ix, i), Without(cand_set, i),
                    sim_to_q, cand_vecs, texts, top_k, l_num, l_den)

\* mmr_select(query_vec, cand_vecs, texts, top_k, lambda_ = l_num / l_den)
mmr_select(query_vec, cand_vecs, texts, top_k, l_num, l_den) ==
    LET cand_ix  == [j \in 1..Len(texts) |-> j - 1]
        sim_to_q == [j \in 1..Len(cand_vecs) |-> cos(query_vec, cand_vecs[j])]
        cand_set == PyIter(PySetOf(cand_ix))
        selected_ix == MmrLoop(<< >>, << >>, cand_set, sim_to_q, cand_vecs, texts,
                               top_k, l_num, l_den)
    IN IF cand_ix = << >> THEN << >>
       ELSE [j \in 1..Len(selected_ix) |-> texts[selected_ix[j] + 1]]

MaxCand == 3

\* embeddings of norm 5, and the zero vector
MmrVectors == {<<5, 0>>, <<0, 5>>, <<3, 4>>, <<4, 3>>, <<-5, 0>>, <<0, 0>>}

\* candidate j carries the text str(j)
MmrTexts(n) == [j \in 1..n |-> IdxStr(j - 1)]

\* lambda_ as l_num / l_den: 0.0 and 1.0
MmrLambdas == {[num |-> 0, den |-> 1], [num |-> 1, den |-> 1]}

InitMMR ==
    /\ chunks = << >>
    /\ docs = << >>
    /\ tabs = NoTables
    /\ hits = << >>
    /\ ret = NoRet
    /\ AvsIdle
    /\ \E query_vec \in MmrVectors, cand_vecs \in SeqsUpTo(MmrVectors, MaxCand) :
          inp = [f |-> "mmr_select", query_vec |-> query_vec,
                 cand_vecs |-> cand_vecs, texts |-> MmrTexts(Len(cand_vecs))]
    /\ out = << >>

MmrSelect(top_k, lam) ==
    /\ inp.f = "mmr_select"
    /\ out = << >>
    /\ out' = [top_k |-> top_k, l_num |-> lam.num, l_den |-> lam.den,
               texts |-> mmr_select(inp.query_vec, inp.cand_vecs, inp.texts,
                                    top_k, lam.num, lam.den)]
    /\ UNCHANGED <<memVars, avsVars, inp>>

NextMMR == \E top_k \in 0..(MaxCand + 1), lam \in MmrLambdas : MmrSelect(top_k, lam)

SpecMMR == InitMMR /\ [][NextMMR]_vars

\* the query similarity of the candidate that carries text t
SimOfText(t) ==
    cos(inp.query_vec,
        inp.cand_vecs[CHOOSE j \in 1..Len(inp.texts) : inp.texts[j] = t])

\* the query similarities of all candidates, highest first
SimsDescending ==
    LET sims == [j \in 1..Len(inp.cand_vecs) |->
                    [s |-> cos(inp.query_vec, inp.cand_vecs[j])]]
        srt  == SortDesc(sims)
    IN [j \in 1..Len(srt) |-> srt[j].s]

MaxLexCorpus == 3

\* "a a b", "a b b", "b b b" have three tokens; "a b" and "b" are shorter
LexTexts ==
    { <<Run("a", 1), Run(" ", 1), Run("a", 1), Run(" ", 1), Run("b", 1)>>,
      <<Run("a", 1), Run(" ", 1), Run("b", 1), Run(" ", 1), Run("b", 1)>>,
      <<Run("b", 1), Run(" ", 1), Run("b", 1), Run(" ", 1), Run("b", 1)>>,
      <<Run("a", 1), Run(" ", 1), Run("b", 1)>>,
      Rep("b", 1) }

\* the store after ingesting up to MaxLexCorpus one-chunk documents and
\* disabling some of the chunks
InitLex ==
    /\ \E n \in 1..MaxLexCorpus :
         \E P \in SUBSET (1..n) :
            \E txt \in [P -> LexTexts] :
               /\ chunks = Corpus(n, txt)
               /\ docs = CorpusDocs(n)
    /\ tabs = NoTables
    /\ hits = << >>
    /\ ret = NoRet
    /\ AvsIdle
    /\ FunIdle

\* a bm25 search of the engine with a one-term query
LexSearch(term, top_k) ==
    LET Return(r) ==
            /\ chunks' = r.chunks
            /\ tabs' = r.tabs
            /\ hits' = r.hits
            /\ ret' = [op |-> "search"]
            /\ inp' = [f |-> "bm25", term |-> term, top_k |-> top_k]
            /\ UNCHANGED <<docs, avsVars, out>>
    IN /\ inp.f = "none"
       /\ Return(search(chunks, tabs, Query(Rep(term, 1), top_k, "bm25", AlphaDen, NoFilter)))

NextLex == \E term \in {"a", "b"}, top_k \in 1..MaxLexCorpus : LexSearch(term, top_k)

SpecLex == InitLex /\ [][NextLex]_vars

\* occurrences of a term in chunk k, and the chunk's number of tokens
Occurrences(k, term) ==
    Cardinality({j \in DOMAIN _tokenize(chunks[k].text) :
                    _tokenize(chunks[k].text)[j] = Rep(term, 1)})

TokenLength(k) == Len(_tokenize(chunks[k].text))

\* the position of chunk k in the hits, 0 when it is not among them
HitPosition(k) ==
    IF \E j \in 1..Len(hits) : hits[j].i = k - 1
    THEN CHOOSE j \in 1..Len(hits) : hits[j].i = k - 1
    ELSE 0

\* C11: in a bm25 search with a one-term query, of two chunks of the same
\* token length that pass the filter, the one with more occurrences of the
\* term scores at least as high and ranks at least as high: it is a hit
\* whenever the list is not full or the other chunk is a hit, and then it
\* comes before the other chunk with a score no lower.
C11_MoreOccurrencesRanksHigher ==
    inp.f = "bm25" =>
        \A x, y \in 1..Len(chunks) :
            (/\ _match_filters(chunks[x], NoFilter)
             /\ _match_filters(chunks[y], NoFilter)
             /\ TokenLength(x) = TokenLength(y)
             /\ Occurrences(x, inp.term) > Occurrences(y, inp.term))
            => /\ (Len(hits) < inp.top_k \/ HitPosition(y) > 0) => HitPosition(x) > 0
               /\ HitPosition(y) > 0 =>
                    /\ HitPosition(x) < HitPosition(y)
                    /\ hits[HitPosition(x)].score >= hits[HitPosition(y)].score

\* "a b b" stored before "a a b", both enabled, query "a": the second chunk
\* is the first hit and the first chunk the second
C11_Witness ==
    /\ inp.f = "bm25"
    /\ inp.term = "a"
    /\ Len(chunks) = 2
    /\ Occurrences(1, "a") = 1
    /\ Occurrences(2, "a") = 2
    /\ TokenLength(1) = 3
    /\ TokenLength(2) = 3
    /\ Len(hits) = 2
    /\ hits[1].i = 1
    /\ hits[2].i = 0
    /\ hits[1].score > hits[2].score

\* ------------------------------------------------------------------------
\* Faithfulness score (app/pipelines/rag_plus.py, core/llm.py)
\* ------------------------------------------------------------------------

\* the characters of a run-length encoded string, one by one
RECURSIVE Chars(_)
Chars(s) ==
    IF s = << >> THEN << >>
    ELSE [j \in 1..Head(s).n |-> Head(s).c] \o Chars(Tail(s))

\* raw.strip().split()[0] as a list of characters; << >> stands for the
\* IndexError of an empty split
RECURSIVE UntilSpace(_)
UntilSpace(cs) ==
    IF cs = << >> \/ IsSpace(Head(cs)) THEN << >>
    ELSE <<Head(cs)>> \o UntilSpace(Tail(cs))

FirstToken(raw) == UntilSpace(Chars(Strip(raw)))

IsDigit(ch) == ch \in {"0", "1", "2", "3", "4", "5", "6", "7", "8", "9"}

DigitVal(ch) ==
    CASE ch = "0" -> 0 [] ch = "1" -> 1 [] ch = "2" -> 2 [] ch = "3" -> 3
      [] ch = "4" -> 4 [] ch = "5" -> 5 [] ch = "6" -> 6 [] ch = "7" -> 7
      [] ch = "8" -> 8 [] ch = "9" -> 9

\* the decimal digits [. digits] of float(): [ok, num, den], the value being
\* num / den; nd counts the digits seen, dot tells whether the point was
RECURSIVE ScanDecimal(_, _, _, _, _)
ScanDecimal(cs, num, den, dot, nd) ==
    IF cs = << >> THEN [ok |-> nd > 0, num |-> num, den |-> den]
    ELSE IF IsDigit(Head(cs))
         THEN ScanDecimal(Tail(cs), num * 10 + DigitVal(Head(cs)),
                          IF dot THEN den * 10 ELSE den, dot, nd + 1)
    ELSE IF Head(cs) = "." /\ ~dot
         THEN ScanDecimal(Tail(cs), num, den, TRUE, nd)
    ELSE [ok |-> FALSE, num |-> 0, den |-> 1]

LowerChars(cs) == [j \in 1..Len(cs) |-> LowerOf(cs[j])]

\* float(token) for tokens without exponent and without underscores:
\* [ok, kind, neg, num, den]; ok = FALSE is the ValueError
PyFloat(cs) ==
    LET neg  == cs # << >> /\ Head(cs) = "-"
        Unsigned(body) ==
            IF LowerChars(body) = <<"n", "a", "n">>
            THEN [ok |-> TRUE, kind |-> "nan", neg |-> neg, num |-> 0, den |-> 1]
            ELSE IF LowerChars(body) \in {<<"i", "n", "f">>,
                                          <<"i", "n", "f", "i", "n", "i", "t", "y">>}
            THEN [ok |-> TRUE, kind |-> "inf", neg |-> neg, num |-> 1, den |-> 0]
            ELSE LET Number(d) == [ok |-> d.ok, kind |-> "num", neg |-> neg,
                                   num |-> d.num, den |-> d.den]
                 IN Number(ScanDecimal(body, 0, 1, FALSE, 0))
    IN Unsigned(IF cs # << >> /\ Head(cs) \in {"-", "+"} THEN Tail(cs) ELSE cs)

\* the test without its upper limit
OutOfRangeNoUpper(val) ==
    \/ val.kind = "nan"
    \/ (val.kind = "inf" /\ val.neg)
    \/ (val.kind = "num" /\ val.neg /\ val.num > 0)

\* math.isnan(val) or val < 0 or val > 1
OutOfRange(val) ==
    \/ val.kind = "nan"
    \/ val.kind = "inf"
    \/ (val.kind = "num" /\ ((val.neg /\ val.num > 0) \/ val.num > val.den))

\* what faithfulness_check returns: [num, den, neg] is the float num / den,
\* negative zero when neg
Zero == [num |-> 0, den |-> 1, neg |-> FALSE]

\* the provider's behaviour is [raises, text]: generate_text raises
\* MultiModalLabError when its backend fails, which faithfulness_check does
\* not catch
faithfulness_check(llm) ==
    LET Score(val) ==
            IF ~val.ok THEN Zero
            ELSE IF OutOfRange(val) THEN Zero
            ELSE [num |-> val.num, den |-> val.den, neg |-> val.neg]
        Parse(tok) ==
            IF tok = << >> THEN Zero ELSE Score(PyFloat(tok))
    IN IF llm.raises THEN [raised |-> TRUE]
       ELSE [raised |-> FALSE, val |-> Parse(FirstToken(llm.text))]

\* the string of a list of characters
RECURSIVE Str(_)
Str(cs) == IF cs = << >> THEN EmptyStr ELSE SCat(Rep(Head(cs), 1), Str(Tail(cs)))

\* what the provider answers after "Score:": numbers inside and outside
\* [0, 1], signed zeros, nan and inf in both cases, malformed numbers, words
ScoreTokens ==
    { << >>, <<"0", ".", "5">>, <<"0", ".", "7", "5">>, <<"1">>, <<"1", ".", "0">>,
      <<"0">>, <<"-", "0", ".", "5">>, <<"1", ".", "5">>, <<"2">>, <<"1", "0">>,
      <<"n", "a", "n">>, <<"N", "a", "N">>, <<"i", "n", "f">>, <<"-", "i", "n", "f">>,
      <<"x">>, <<"0", ".", "5", "x">>, <<"0", ".", "5", ".">>, <<".", "5">>,
      <<"5", ".">>, <<"-", "0", ".", "0">>, <<"+", "1">>, <<"-">>, <<".">>,
      <<"1", ".", "0", "1">>, <<"0", ".", "9", "9">> }

LlmTexts ==
    { SCat(SCat(pre, Str(tok)), post) :
        pre  \in {EmptyStr, Rep(" ", 1), Rep("\n", 2)},
        tok  \in ScoreTokens,
        post \in {EmptyStr, Str(<<" ", "x">>), Str(<<"\n", "0", ".", "5">>)} }

\* the provider returns a text, or its backend fails
LlmBehaviours ==
    {[raises |-> FALSE, text |-> t] : t \in LlmTexts}
        \cup {[raises |-> TRUE, text |-> EmptyStr]}

InitFaith ==
    /\ chunks = << >>
    /\ docs = << >>
    /\ tabs = NoTables
    /\ hits = << >>
    /\ ret = NoRet
    /\ AvsIdle
    /\ \E llm \in LlmBehaviours : inp = [f |-> "faithfulness_check", llm |-> llm]
    /\ out = << >>

FaithfulnessCheck ==
    /\ inp.f = "faithfulness_check"
    /\ out = << >>
    /\ out' = faithfulness_check(inp.llm)
    /\ UNCHANGED <<memVars, avsVars, inp>>

NextFaith == FaithfulnessCheck

SpecFaith == InitFaith /\ [][NextFaith]_vars

\* the first token of the provider's text is a number in [0, 1]
ScoreInUnit(text) ==
    /\ FirstToken(text) # << >>
    /\ PyFloat(FirstToken(text)).ok
    /\ PyFloat(FirstToken(text)).kind = "num"
    /\ PyFloat(FirstToken(text)).num <= PyFloat(FirstToken(text)).den
    /\ ~(PyFloat(FirstToken(text)).neg /\ PyFloat(FirstToken(text)).num > 0)

\* C12: for every text the provider returns, faithfulness_check returns a
\* value in [0, 1]; when the text is empty, or its first token is not a
\* number, or the number is NaN or outside [0, 1], the value is exactly 0.0.
C12_ScoreInUnitInterval ==
    (inp.f = "faithfulness_check" /\ out # << >> /\ ~inp.llm.raises) =>
        /\ ~out.raised
        /\ out.val.num >= 0
        /\ out.val.den > 0
        /\ out.val.num <= out.val.den
        /\ ~ScoreInUnit(inp.llm.text) => out.val = Zero

\* the provider answered "1.5" and the score is 0.0
C12_Witness ==
    /\ inp.f = "faithfulness_check"
    /\ out # << >>
    /\ ~inp.llm.raises
    /\ inp.llm.text = Str(<<"1", ".", "5">>)
    /\ out.val = Zero

\* C13: faithfulness_check never raises: whatever the provider does, the
\* provider call failing included, it returns a float.
C13_NeverRaises ==
    (inp.f = "faithfulness_check" /\ out # << >>) => ~out.raised

\* ------------------------------------------------------------------------
\* Query rewriting (app/pipelines/rag_plus.py)
\* ------------------------------------------------------------------------

\* out.splitlines(): the pieces between line breaks; a run of k line breaks
\* leaves k - 1 empty lines, and no empty line follows a final line break
RECURSIVE SplitLines(_, _)
SplitLines(s, cur) ==
    IF s = << >> THEN (IF cur = << >> THEN << >> ELSE <<cur>>)
    ELSE IF Head(s).c = "\n"
         THEN <<cur>> \o [j \in 1..(Head(s).n - 1) |-> EmptyStr]
                \o SplitLines(Tail(s), << >>)
         ELSE SplitLines(Tail(s), cur \o <<Head(s)>>)

\* the characters of q.strip("-• \n"); "bullet" is the character U+2022
BulletChars == {"-", "bullet", " ", "\n"}

RECURSIVE LStripBullets(_)
LStripBullets(s) ==
    IF s # << >> /\ Head(s).c \in BulletChars THEN LStripBullets(Tail(s)) ELSE s

RECURSIVE RStripBullets(_)
RStripBullets(s) ==
    IF s # << >> /\ s[Len(s)].c \in BulletChars
    THEN RStripBullets(SubSeq(s, 1, Len(s) - 1))
    ELSE s

\* [q.strip("-• \n") for q in lines if q.strip()]
RECURSIVE CleanLines(_)
CleanLines(lines) ==
    IF lines = << >> THEN << >>
    ELSE (IF Strip(Head(lines)) # << >>
          THEN <<RStripBullets(LStripBullets(Head(lines)))>>
          ELSE << >>)
           \o CleanLines(Tail(lines))

\* the loop that keeps the first of the queries whose first 128 characters
\* are equal up to case
RECURSIVE UniqueQueries(_, _, _)
UniqueQueries(qs, seen, uniq) ==
    IF qs = << >> THEN uniq
    ELSE IF Lower(SHead(Head(qs), 128)) \in seen
         THEN UniqueQueries(Tail(qs), seen, uniq)
         ELSE UniqueQueries(Tail(qs), seen \cup {Lower(SHead(Head(qs), 128))},
                            Append(uniq, SHead(Head(qs), 128)))

\* RAGPlus.rewrite_queries(question, n) when the provider behaves as llm
rewrite_queries(question, llm, n) ==
    LET WithQuestion(qs) ==
            IF Strip(question) \in Range(qs) THEN qs
            ELSE Append(qs, Strip(question))
    IN IF llm.raises THEN [raised |-> TRUE]
       ELSE [raised  |-> FALSE,
             queries |-> Take(UniqueQueries(
                                 WithQuestion(CleanLines(SplitLines(llm.text, << >>))),
                                 {}, << >>), n)]

MaxLines == 3

\* a 130-character question, and short ones
QLong == Rep("c", 130)

Questions == {Str(<<"a", " ", "b">>), Str(<<" ", "a">>), Rep("A", 1), QLong}

\* the lines a provider writes
RewriteLines ==
    {Rep("a", 1), Str(<<"-", " ", "b">>), Rep("x", 1), Str(<<"a", " ", "b">>), Rep("d", 1)}

RECURSIVE JoinLines(_)
JoinLines(lines) ==
    IF lines = << >> THEN EmptyStr
    ELSE IF Len(lines) = 1 THEN Head(lines)
    ELSE SCat(SCat(Head(lines), Rep("\n", 1)), JoinLines(Tail(lines)))

RewriteBehaviours ==
    {[raises |-> FALSE, text |-> JoinLines(ls)] : ls \in SeqsUpTo(RewriteLines, MaxLines)}
        \cup {[raises |-> TRUE, text |-> EmptyStr]}

InitRewrite ==
    /\ chunks = << >>
    /\ docs = << >>
    /\ tabs = NoTables
    /\ hits = << >>
    /\ ret = NoRet
    /\ AvsIdle
    /\ \E question \in Questions, llm \in RewriteBehaviours :
          inp = [f |-> "rewrite_queries", question |-> question, llm |-> llm]
    /\ out = << >>

RewriteQueries(n) ==
    /\ inp.f = "rewrite_queries"
    /\ out = << >>
    /\ out' = [n |-> n] @@ rewrite_queries(inp.question, inp.llm, n)
    /\ UNCHANGED <<memVars, avsVars, inp>>

NextRewrite == \E n \in 1..MaxLines : RewriteQueries(n)

SpecRewrite == InitRewrite /\ [][NextRewrite]_vars

\* C14: for every question and every provider output, the list that
\* rewrite_queries(question, n) returns contains the question verbatim.
C14_QuestionIncluded ==
    (inp.f = "rewrite_queries" /\ out # << >> /\ ~inp.llm.raises) =>
        inp.question \in Range(out.queries)


\* ---------------------------------------------------------------------
\* Cross-encoder reranker (ai-service/app/services/rag/reranker.py) and
\* the reranking step of RAGSearchService.search (services/rag/search.py).
\* Scores are exact rationals [num, den] with den > 0.

Half == [num |-> 1, den |-> 2]

RatLess(x, y) == x.num * y.den < y.num * x.den

\* Reranker.__init__: nothing is loaded yet.
NewReranker == [initialized |-> FALSE, tokenizer |-> FALSE, model |-> FALSE]

\* Reranker.initialize: load is the step at which the loading raises
\* ("tokenizer", "model", "device") or "ok".  What was assigned before the
\* raising step stays assigned; the except branch clears only `initialized`.
initialize(rr, load) ==
    IF rr.initialized THEN rr
    ELSE CASE load = "tokenizer" -> [rr EXCEPT !.initialized = FALSE]
           [] load = "model" ->
                [rr EXCEPT !.tokenizer = TRUE, !.initialized = FALSE]
           [] load = "device" ->
                [rr EXCEPT !.tokenizer = TRUE, !.model = TRUE,
                           !.initialized = FALSE]
           [] OTHER ->
                [initialized |-> TRUE, tokenizer |-> TRUE, model |-> TRUE]

DummyScores(pairs) == [i \in 1..Len(pairs) |-> Half]

\* Reranker.rerank with the dummy scores replaced by a failure: the
\* unavailable backend is not absorbed.
rerank_no_fallback(rr, pairs, load, scoring) ==
    LET ScoresOf(r) ==
            IF ~r.model \/ scoring.raises
            THEN [rr |-> r, failed |-> TRUE, scores |-> << >>]
            ELSE [rr |-> r, failed |-> FALSE,
                  scores |-> [i \in 1..Len(pairs) |-> scoring.of[pairs[i][2]]]]
    IN  ScoresOf(IF rr.initialized THEN rr ELSE initialize(rr, load))

\* Reranker.rerank: pairs is a sequence of <<query, chunk>>; scoring is the
\* backend's behaviour on this batch: it raises, or it maps every chunk to
\* a score.  Returns the scores and the reranker's state after the call.
rerank(rr, pairs, load, scoring) ==
    LET ScoresOf(r) ==
            IF ~r.model
            THEN [rr |-> r, failed |-> FALSE, scores |-> DummyScores(pairs)]
            ELSE IF scoring.raises
            THEN [rr |-> r, failed |-> FALSE, scores |-> DummyScores(pairs)]
            ELSE [rr |-> r, failed |-> FALSE,
                  scores |-> [i \in 1..Len(pairs) |-> scoring.of[pairs[i][2]]]]
    IN  ScoresOf(IF rr.initialized THEN rr ELSE initialize(rr, load))

\* sorted(results, key=rerank_score, reverse=True): stable, so an element
\* is placed after every element whose score is not smaller than its own.
RECURSIVE InsertByRerank(_, _, _)
InsertByRerank(sorted, x, i) ==
    IF i > Len(sorted) THEN Append(sorted, x)
    ELSE IF RatLess(sorted[i].rerank_score, x.rerank_score)
         THEN SubSeq(sorted, 1, i - 1) \o <<x>> \o SubSeq(sorted, i, Len(sorted))
         ELSE InsertByRerank(sorted, x, i + 1)

RECURSIVE SortByRerank(_, _)
SortByRerank(results, sorted) ==
    IF results = << >> THEN sorted
    ELSE SortByRerank(Tail(results), InsertByRerank(sorted, Head(results), 1))

\* Reranker.rerank_results.
rerank_results(rr, query, results, top_k, load, scoring) ==
    IF results = << >> THEN [rr |-> rr, failed |-> FALSE, results |-> results]
    ELSE LET Attach(r) ==
                 IF r.failed
                 THEN [rr |-> r.rr, failed |-> TRUE, results |-> << >>]
                 ELSE [rr |-> r.rr, failed |-> FALSE,
                       results |->
                         Take(SortByRerank(
                           [i \in 1..Len(results) |->
                              [id |-> results[i].id,
                               chunk |-> results[i].chunk,
                               score |-> results[i].score,
                               rerank_score |-> r.scores[i],
                               original_score |-> results[i].score]],
                           << >>), top_k)]
         IN  Attach(rerank(rr,
                           [i \in 1..Len(results) |-> <<query, results[i].chunk>>],
                           load, scoring))

\* RAGSearchService.search, lines 154-178, for an initialized service:
\* retrieved is what the routed ranker returned.
service_search(svc, query, top_k, search_type, retrieved, load, scoring) ==
    IF search_type \notin {"semantic", "bm25", "hybrid"}
    THEN [rr |-> svc.reranker, results |-> << >>]
    ELSE IF svc.enable_rerank /\ Len(retrieved) > 1
    THEN LET Done(r) ==
                 [rr |-> r.rr,
                  results |-> IF r.failed THEN << >> ELSE r.results]
         IN  Done(rerank_results(svc.reranker, query, retrieved, top_k,
                                 load, scoring))
    ELSE [rr |-> svc.reranker, results |-> retrieved]

MaxRetrieved == 3
RerankChunks == {"a", "b", "c"}
RerankScores == {[num |-> 0 - 1, den |-> 1], Half, [num |-> 2, den |-> 1]}
Loads == {"ok", "tokenizer", "model", "device"}
Scorings ==
    {[raises |-> TRUE, of |-> [c \in RerankChunks |-> Half]]}
    \cup {[raises |-> FALSE, of |-> f] : f \in [RerankChunks -> RerankScores]}

\* Candidate lists a ranker can return: distinct chunks, scores descending
\* by position.
Candidates(n) ==
    {[i \in 1..n |-> [id |-> f[i], chunk |-> f[i],
                      score |-> [num |-> n - i, den |-> 1]]] :
       f \in {g \in [1..n -> RerankChunks] :
                \A i, j \in 1..n : i # j => g[i] # g[j]}}

\* The reranker as constructed, or as earlier calls left it.
RerankerStates ==
    {NewReranker} \cup {initialize(NewReranker, load) : load \in Loads}

InitRerank ==
    /\ MemIdle
    /\ ret = NoRet
    /\ AvsIdle
    /\ \E e \in BOOLEAN, rr \in RerankerStates :
         inp = [f |-> "rerank", enable_rerank |-> e, reranker |-> rr]
    /\ out = << >>

\* One call of Reranker.rerank_results.
RerankResults(top_k, load, scoring) ==
    /\ inp.f = "rerank"
    /\ out = << >>
    /\ \E n \in 0..MaxRetrieved : \E results \in Candidates(n) :
         LET r == rerank_results(inp.reranker, "q", results, top_k,
                                 load, scoring)
         IN  /\ out' = [f |-> "rerank_results", top_k |-> top_k,
                        retrieved |-> results, enabled |-> TRUE,
                        unavailable |-> ~r.rr.model \/ scoring.raises,
                        failed |-> r.failed, results |-> r.results]
             /\ inp' = [inp EXCEPT !.reranker = r.rr]
    /\ UNCHANGED memVars
    /\ UNCHANGED avsVars

\* One call of RAGSearchService.search; a ranker returns at most top_k
\* candidates.
ServiceSearch(top_k, search_type, load, scoring) ==
    /\ inp.f = "rerank"
    /\ out = << >>
    /\ \E n \in 0..top_k : \E retrieved \in Candidates(n) :
         LET r == service_search(inp, "q", top_k, search_type, retrieved,
                                 load, scoring)
         IN  /\ out' = [f |-> "search", top_k |-> top_k,
                        retrieved |-> retrieved,
                        enabled |-> inp.enable_rerank,
                        unavailable |-> ~r.rr.model \/ scoring.raises,
                        failed |-> FALSE, results |-> r.results]
             /\ inp' = [inp EXCEPT !.reranker = r.rr]
    /\ UNCHANGED memVars
    /\ UNCHANGED avsVars

NextRerank ==
    \E top_k \in 1..MaxRetrieved, load \in Loads, scoring \in Scorings :
        \/ RerankResults(top_k, load, scoring)
        \/ \E search_type \in {"semantic", "bm25", "hybrid"} :
               ServiceSearch(top_k, search_type, load, scoring)

SpecRerank == InitRerank /\ [][NextRerank]_vars

IdsOfResults(results) == [i \in 1..Len(results) |-> results[i].id]

\* C15: with the scoring backend unavailable (no model loaded, or scoring
\* raises), every reranked result carries rerank_score 0.5, and a call
\* with reranking enabled returns the retrieved candidates, in retrieval
\* order, cut to top_k; it neither fails nor comes back empty.
C15_UnavailableRerankerIsNeutral ==
    (out # << >> /\ out.enabled /\ out.unavailable)
    => /\ ~out.failed
       /\ IdsOfResults(out.results)
            = IdsOfResults(Take(out.retrieved, out.top_k))
       /\ (Len(out.retrieved) > 1 =>
             \A i \in 1..Len(out.results) :
                out.results[i].rerank_score = Half)

C15_Witness ==
    /\ out # << >> /\ out.f = "search" /\ out.enabled /\ out.unavailable
    /\ ~inp.reranker.model
    /\ Len(out.retrieved) = 3 /\ out.top_k = 3
    /\ Len(out.results) = 3
    /\ out.results[1].rerank_score = Half


\* ---------------------------------------------------------------------
\* Request validation of ChineseRAGEngine.search (core/rag.py, 487-501).
\* The engine receives a RetrievalQuery as it is: a dataclass, whose
\* Literal annotation of `mode` is not enforced at run time.

MaxReqCorpus == 2

ReqTexts == {EmptyStr, TxA}
ReqTopKs == (0 - 1)..2
ReqModes == {"semantic", "bm25", "hybrid", "advanced"}

InitValidate ==
    /\ \E n \in 1..MaxReqCorpus :
         \E P \in SUBSET (1..n) :
            \E txt \in [P -> LexTexts] :
               /\ chunks = Corpus(n, txt)
               /\ docs = CorpusDocs(n)
    /\ tabs = NoTables
    /\ hits = << >>
    /\ ret = NoRet
    /\ AvsIdle
    /\ FunIdle

\* chunks that carry a vector, and whether the lexical tables are built
Encoded(cs) == {k \in 1..Len(cs) : cs[k].vec # NoVec}

\* One call of engine.search(RetrievalQuery(text, top_k, mode)).  The
\* method has no raise statement and no check of text or mode: it returns
\* the list of hits on every path.
SearchRequest(text, top_k, mode) ==
    LET Return(r) ==
            /\ chunks' = r.chunks
            /\ tabs' = r.tabs
            /\ hits' = r.hits
            /\ ret' = [op |-> "search", outcome |-> "hits"]
            /\ inp' = [f |-> "search", text |-> text, top_k |-> top_k,
                       mode |-> mode,
                       encoded |-> Encoded(chunks), built |-> tabs.built]
            /\ UNCHANGED <<docs, avsVars, out>>
    IN /\ inp.f = "none"
       /\ Return(search(chunks, tabs,
                        Query(text, top_k, mode, AlphaDen, NoFilter)))

NextValidate ==
    \E text \in ReqTexts, top_k \in ReqTopKs, mode \in ReqModes :
        SearchRequest(text, top_k, mode)

SpecValidate == InitValidate /\ [][NextValidate]_vars

InvalidRequest(q) ==
    \/ q.text = EmptyStr
    \/ q.top_k <= 0
    \/ q.mode \notin {"semantic", "bm25", "hybrid"}

\* C16: a search request with empty text, top_k <= 0 or an unknown mode
\* ends in a validation error and not in a result list, and it leaves the
\* vectors and the lexical tables as they were (nothing was encoded or
\* built for it).
C16_InvalidRequestRejected ==
    (inp.f = "search" /\ InvalidRequest(inp))
    => /\ ret.outcome = "ValidationError"
       /\ Encoded(chunks) = inp.encoded
       /\ tabs.built = inp.built


\* ---------------------------------------------------------------------
\* RAGPlus.run (app/pipelines/rag_plus.py, 167-195) and the steps it
\* calls.  A provider call ends in one of three ways: it returns, it
\* raises, or it never responds ("hangs").

\* s in t, for strings
SContains(t, s) ==
    \E off \in 0..SLen(t) : SHead(SDrop(t, off), SLen(s)) = s

\* numbered_citations: line i is "[i] " followed by normalize_ws(t)
numbered_citations(snippets) ==
    [i \in 1..Len(snippets) |-> [n |-> i, text |-> normalize_ws(snippets[i])]]

\* the first chunk of compress_context whose content contains s.strip()
FirstContaining(chunks_, s) ==
    LET hit == {j \in 1..Len(chunks_) : SContains(chunks_[j].content, Strip(s))}
    IN  IF hit = {} THEN << >>
        ELSE <<chunks_[CHOOSE j \in hit : \A m \in hit : j <= m].meta>>

RECURSIVE MetasOf(_, _)
MetasOf(chunks_, selected) ==
    IF selected = << >> THEN << >>
    ELSE FirstContaining(chunks_, Head(selected))
           \o MetasOf(chunks_, Tail(selected))

\* RAGPlus.compress_context with lambda_ = 0.7; embed is how the embedding
\* provider answers the two encode calls.
compress_context(question, chunks_, out_k, embed) ==
    LET texts == [j \in 1..Len(chunks_) |-> chunks_[j].content]
        Pack(selected) ==
            [raised |-> FALSE, ctx |-> numbered_citations(selected),
             metas |-> MetasOf(chunks_, selected)]
    IN  IF texts = << >>
        THEN [raised |-> FALSE, ctx |-> << >>, metas |-> << >>]
        ELSE IF embed = "raises" THEN [raised |-> TRUE]
        ELSE Pack(mmr_select(Encode(question),
                             [j \in 1..Len(texts) |-> Encode(texts[j])],
                             texts, out_k, 7, 10))

\* x + y for rationals [num, den]
RatAdd(x, y) ==
    [num |-> x.num * y.den + y.num * x.den, den |-> x.den * y.den]

\* the Jaccard score of answer i against the other answers
RECURSIVE VoteScore(_, _, _)
VoteScore(sets, i, j) ==
    IF j > Len(sets) THEN [num |-> 0, den |-> 1]
    ELSE IF j = i THEN VoteScore(sets, i, j + 1)
    ELSE RatAdd([num |-> Cardinality(sets[i] \cap sets[j]),
                 den |-> Max2(Cardinality(sets[i] \cup sets[j]), 1)],
                VoteScore(sets, i, j + 1))

\* majority_vote of app/util/text.py: the first answer of maximal score
majority_vote(xs) ==
    LET sets == [i \in 1..Len(xs) |-> Range(FindWords(Lower(xs[i]), << >>))]
        Best(scores) ==
            CHOOSE i \in 1..Len(xs) :
                /\ \A j \in 1..Len(xs) : ~RatLess(scores[i], scores[j])
                /\ \A j \in 1..(i - 1) : RatLess(scores[j], scores[i])
    IN  IF xs = << >> THEN EmptyStr
        ELSE IF Len(xs) = 1 THEN xs[1]
        ELSE xs[Best([i \in 1..Len(xs) |-> VoteScore(sets, i, 1)])]


\* The local variables of one call of RAGPlus.run.  pc is the provider
\* call the run is about to make; "blocked" is a run waiting for a call
\* that never responds, "raised" a run an exception has left, and step
\* names the call at which that happened.
NewRun ==
    [pc |-> "rewrite", step |-> "rewrite", queries |-> << >>,
     per_query |-> << >>, fused |-> << >>, ctx |-> << >>, metas |-> << >>,
     answers |-> << >>, final |-> EmptyStr, faith |-> Zero]

Blocked(run, step) == [run EXCEPT !.pc = "blocked", !.step = step]
Raised(run, step) == [run EXCEPT !.pc = "raised", !.step = step]

MaxTopK == 2

RunQuestions == {Str(<<"a", " ", "b">>), Rep("A", 1)}

\* what the generation provider may answer to a rewriting prompt
RunRewrites == {JoinLines(ls) : ls \in SeqsUpTo({Rep("a", 1), Rep("x", 1)}, 2)}

\* what engine.search may return for one query, as Retrieved items
RunHits ==
    { << >>,
      <<Retrieved(Rep("x", 1), 0, "x")>>,
      <<Retrieved(Rep("b", 1), 0, "y1"), Retrieved(Rep("x", 1), 0, "x")>>,
      <<Retrieved(SCat(Rep(" ", 1), Rep("B", 1)), 0, "y2")>> }

RunAnswers == {Rep("x", 1), Str(<<"x", " ", "y">>)}
RunScores == {Str(<<"0", ".", "5">>), Rep("2", 1)}

\* how a call of the generation provider ends
Answered(t) == [hangs |-> FALSE, raises |-> FALSE, text |-> t]
Hanging == [hangs |-> TRUE, raises |-> FALSE, text |-> EmptyStr]
Raising == [hangs |-> FALSE, raises |-> TRUE, text |-> EmptyStr]

\* how a call of engine.search ends
Found(h) == [hangs |-> FALSE, raises |-> FALSE, hits |-> h]
SearchHanging == [hangs |-> TRUE, raises |-> FALSE, hits |-> << >>]
SearchRaising == [hangs |-> FALSE, raises |-> TRUE, hits |-> << >>]

Outcomes(texts) == {Answered(t) : t \in texts} \cup {Hanging, Raising}

InitRun ==
    /\ MemIdle
    /\ ret = NoRet
    /\ AvsIdle
    /\ \E question \in RunQuestions, top_k \in 1..MaxTopK :
         inp = [f |-> "run", question |-> question, top_k |-> top_k,
                mode |-> "hybrid"]
    /\ out = NewRun

\* 1) queries = self.rewrite_queries(question, n=3)
RunRewrite(llm) ==
    LET Rewritten(r) ==
            IF r.raised THEN Raised(out, "rewrite")
            ELSE [out EXCEPT !.queries = r.queries, !.pc = "retrieve"]
    IN  /\ inp.f = "run" /\ out.pc = "rewrite"
        /\ out' = IF llm.hangs THEN Blocked(out, "rewrite")
                  ELSE Rewritten(rewrite_queries(inp.question, llm, 3))
        /\ UNCHANGED <<memVars, avsVars, inp>>

\* 2) the next element of [self.retrieve_for(q, ...) for q in queries]:
\* engine.search either returns hits, at most top_k of them, or the
\* exception of its provider call leaves the comprehension and run.
RunRetrieve(found) ==
    /\ inp.f = "run" /\ out.pc = "retrieve"
    /\ Len(out.per_query) < Len(out.queries)
    /\ Len(found.hits) <= inp.top_k
    /\ out' =
         IF found.hangs THEN Blocked(out, "retrieve")
         ELSE IF found.raises THEN Raised(out, "retrieve")
         ELSE [out EXCEPT !.per_query = Append(out.per_query, found.hits)]
    /\ UNCHANGED <<memVars, avsVars, inp>>

\* 3) fused = rrf_fuse(per_query, k=top_k * 2) and
\* 4) compress_context(question, fused, out_k=min(8, top_k))
RunCompress(embed) ==
    LET Compress(fused) ==
            IF fused # << >> /\ embed = "hangs" THEN Blocked(out, "compress")
            ELSE IF fused # << >> /\ embed = "raises"
            THEN Raised(out, "compress")
            ELSE [out EXCEPT
                    !.fused = fused,
                    !.ctx = compress_context(inp.question, fused,
                                Min2(8, inp.top_k), "returns").ctx,
                    !.metas = compress_context(inp.question, fused,
                                Min2(8, inp.top_k), "returns").metas,
                    !.pc = "generate"]
    IN  /\ inp.f = "run" /\ out.pc = "retrieve"
        /\ Len(out.per_query) = Len(out.queries)
        /\ out' = Compress(rrf_fuse(out.per_query, inp.top_k * 2))
        /\ UNCHANGED <<memVars, avsVars, inp>>

\* 5) one generate_text call of generate_answers(question, ctx_str, n=3);
\* after the third, final = majority_vote(answers)
RunGenerate(llm) ==
    LET Voted(answers) ==
            IF Len(answers) < 3 THEN [out EXCEPT !.answers = answers]
            ELSE [out EXCEPT !.answers = answers,
                             !.final = majority_vote(answers),
                             !.pc = "faith"]
    IN  /\ inp.f = "run" /\ out.pc = "generate"
        /\ out' =
             IF llm.hangs THEN Blocked(out, "generate")
             ELSE IF llm.raises THEN Raised(out, "generate")
             ELSE Voted(Append(out.answers, llm.text))
        /\ UNCHANGED <<memVars, avsVars, inp>>

\* 6) faith = self.faithfulness_check(question, ctx_str, final), and the
\* result dictionary
RunFaith(llm) ==
    LET Scored(r) ==
            IF r.raised THEN Raised(out, "faith")
            ELSE [out EXCEPT !.faith = r.val, !.pc = "done"]
    IN  /\ inp.f = "run" /\ out.pc = "faith"
        /\ out' = IF llm.hangs THEN Blocked(out, "faith")
                  ELSE Scored(faithfulness_check(llm))
        /\ UNCHANGED <<memVars, avsVars, inp>>

RewriteStep == \E llm \in Outcomes(RunRewrites) : RunRewrite(llm)

RetrieveStep ==
    \E found \in {Found(h) : h \in RunHits} \cup {SearchHanging, SearchRaising} :
        RunRetrieve(found)

CompressStep == \E embed \in {"returns", "raises", "hangs"} : RunCompress(embed)

GenerateStep == \E llm \in Outcomes(RunAnswers) : RunGenerate(llm)

FaithStep == \E llm \in Outcomes(RunScores) : RunFaith(llm)

NextRun ==
    \/ RewriteStep
    \/ RetrieveStep
    \/ CompressStep
    \/ GenerateStep
    \/ FaithStep

SpecRun == InitRun /\ [][NextRun]_vars

\* C17: a retrieval that fails for one rewritten query does not end the
\* run: no run is left by an exception at the retrieval step, and a run
\* that went on fused the lists of the queries that were answered.
C17_RetrievalFailureTolerated ==
    out # << >> /\ inp.f = "run"
    => /\ ~(out.pc = "raised" /\ out.step = "retrieve")
       /\ (out.pc \in {"generate", "faith", "done"}
             => out.fused = rrf_fuse(out.per_query, inp.top_k * 2))


\* CompressStep can be taken exactly when every query has its list.
CompressReady ==
    /\ inp.f = "run" /\ out.pc = "retrieve"
    /\ Len(out.per_query) = Len(out.queries)

\* The run under fair scheduling: the thread that runs it takes its next
\* step whenever it has one.  Weak fairness of CompressStep is written
\* out, with CompressReady for ENABLED <<CompressStep>>_vars.  A provider
\* that does not respond enables no step of the run: the calls
\* (generate_text, encode, engine.search) are synchronous and take no
\* timeout, so nothing leaves "blocked".
SpecRunFair ==
    /\ InitRun /\ [][NextRun]_vars
    /\ WF_vars(RewriteStep)
    /\ WF_vars(RetrieveStep)
    /\ ([]<>(~CompressReady) \/ []<><<CompressStep>>_vars)
    /\ WF_vars(GenerateStep)
    /\ WF_vars(FaithStep)

\* C18: every provider call is bounded by a timeout: a run waiting for a
\* provider that never responds eventually returns with a failure.
C18_BlockedCallTimesOut == (out.pc = "blocked") ~> (out.pc = "raised")


\* ---------------------------------------------------------------------
\* A bm25 search of the in-memory engine running concurrently with one
\* mutation (core/rag.py).  The endpoints of app/routers_rag.py are plain
\* `def` functions, which the server runs on worker threads, and
\* _InMemoryIndex takes no lock: the statements of the two calls
\* interleave.  inp holds the mutating thread, out the searching thread.

MaxRaceCorpus == 2

RaceTexts == {TxA, Rep("b", 1)}

NoDoc == [doc_id |-> << >>, chunks |-> << >>]
NoPayload == [docs |-> << >>, chunks |-> << >>]

\* add_document of a one-chunk document "9", delete_document of a stored
\* document, import_json of an exported one-chunk store
Mutations(n) ==
    {[op |-> "add", doc |-> process_text(t, <<"9">>, NoNs, {}),
      doc_id |-> <<"9">>, payload |-> NoPayload] : t \in RaceTexts}
    \cup {[op |-> "delete", doc |-> NoDoc, doc_id |-> <<IdxStr(k - 1)>>,
           payload |-> NoPayload] : k \in 1..n}
    \cup {[op |-> "import", doc |-> NoDoc, doc_id |-> << >>,
           payload |-> export_json(Corpus(1, <<t>>), CorpusDocs(1))] :
             t \in RaceTexts}

\* the chunks after the whole mutation m, applied to cs and ds
Mutated(cs, ds, m) ==
    CASE m.op = "add" -> add(cs, ds, m.doc).chunks
      [] m.op = "delete" -> delete_doc(cs, ds, m.doc_id).chunks
      [] OTHER -> import_json(m.payload).chunks

SearcherIdle ==
    [pc |-> "idle", term |-> "", top_k |-> 0, gen |-> 0, k |-> 0,
     lengths |-> << >>, mask |-> << >>, pairs |-> << >>]

\* The store before the two calls start: up to MaxRaceCorpus one-chunk
\* documents, lexical tables either never built or built for them.
InitRace ==
    /\ \E n \in 1..MaxRaceCorpus : \E txt \in [1..n -> RaceTexts] :
         /\ chunks = Corpus(n, txt)
         /\ docs = CorpusDocs(n)
         /\ tabs \in {NoTables, _build_bm25(Corpus(n, txt), NoTables)}
         /\ \E m \in Mutations(n) :
              inp = [f |-> "race", m |-> m, pc |-> "start", k |-> 1,
                     gen |-> 0, pre |-> Corpus(n, txt),
                     preDocs |-> CorpusDocs(n)]
    /\ hits = << >>
    /\ ret = NoRet
    /\ AvsIdle
    /\ out = SearcherIdle

\* ---- the mutating thread, statement by statement

\* add: self.docs[doc.doc_id] = {...}
AddRegister ==
    /\ inp.f = "race" /\ inp.m.op = "add" /\ inp.pc = "start"
    /\ docs' = add(chunks, docs, inp.m.doc).docs
    /\ inp' = [inp EXCEPT !.pc = "append"]
    /\ UNCHANGED <<chunks, tabs, hits, ret, avsVars, out>>

\* add: self.chunks.append(...), in place, once per chunk of the document
AddAppend ==
    /\ inp.f = "race" /\ inp.pc = "append"
    /\ inp.k <= Len(inp.m.doc.chunks)
    /\ chunks' = Append(chunks, AsChunk(inp.m.doc.chunks[inp.k]))
    /\ inp' = [inp EXCEPT !.k = inp.k + 1,
                          !.pc = IF inp.k = Len(inp.m.doc.chunks)
                                 THEN "unbuilt" ELSE "append"]
    /\ UNCHANGED <<docs, tabs, hits, ret, avsVars, out>>

\* delete_doc: self.chunks = [c for c in self.chunks if ...], a new list
DeleteRebind ==
    /\ inp.f = "race" /\ inp.m.op = "delete" /\ inp.pc = "start"
    /\ chunks' = RemoveDoc(chunks, inp.m.doc_id)
    /\ inp' = [inp EXCEPT !.pc = "pop", !.gen = 1]
    /\ UNCHANGED <<docs, tabs, hits, ret, avsVars, out>>

\* delete_doc: self.docs.pop(doc_id, None)
DeletePop ==
    /\ inp.f = "race" /\ inp.pc = "pop"
    /\ docs' = DictPop(docs, inp.m.doc_id)
    /\ inp' = [inp EXCEPT !.pc = "unbuilt"]
    /\ UNCHANGED <<chunks, tabs, hits, ret, avsVars, out>>

\* import_json: self.docs = {...}
ImportDocs ==
    /\ inp.f = "race" /\ inp.m.op = "import" /\ inp.pc = "start"
    /\ docs' = import_json(inp.m.payload).docs
    /\ inp' = [inp EXCEPT !.pc = "rebind"]
    /\ UNCHANGED <<chunks, tabs, hits, ret, avsVars, out>>

\* import_json: self.chunks = [...], a new list
ImportRebind ==
    /\ inp.f = "race" /\ inp.pc = "rebind"
    /\ chunks' = import_json(inp.m.payload).chunks
    /\ inp' = [inp EXCEPT !.pc = "unbuilt", !.gen = 1]
    /\ UNCHANGED <<docs, tabs, hits, ret, avsVars, out>>

\* the last statement of add, delete_doc and import_json: self._built = False
MarkUnbuilt ==
    /\ inp.f = "race" /\ inp.pc = "unbuilt"
    /\ tabs' = [tabs EXCEPT !.built = FALSE]
    /\ inp' = [inp EXCEPT !.pc = "done"]
    /\ UNCHANGED <<chunks, docs, hits, ret, avsVars, out>>

\* ---- the searching thread: engine.search(q) with mode "bm25"

\* bm25_search: `if not self.chunks: return []`, `if not self._built:`
SearchBegin(term, top_k) ==
    /\ inp.f = "race" /\ out.pc = "idle"
    /\ out' = [out EXCEPT !.term = term, !.top_k = top_k,
                 !.pc = IF chunks = << >> THEN "hits"
                        ELSE IF tabs.built THEN "mask" ELSE "build"]
    /\ UNCHANGED <<memVars, avsVars, inp>>

\* _build_bm25 up to the head of its loop: N = len(self.chunks), the two
\* clear() calls, and the iterator over the list self.chunks names now
BuildBegin ==
    /\ inp.f = "race" /\ out.pc = "build"
    /\ IF chunks = << >>
       THEN /\ out' = [out EXCEPT !.pc = "mask"]
            /\ UNCHANGED tabs
       ELSE /\ tabs' = [tabs EXCEPT !.tf = << >>, !.df = << >>]
            /\ out' = [out EXCEPT !.pc = "loop", !.gen = inp.gen, !.k = 0,
                                  !.lengths = << >>]
    /\ UNCHANGED <<chunks, docs, hits, ret, avsVars, inp>>

\* the list the loop of _build_bm25 iterates: the one self.chunks named
\* when the loop began, which a later rebinding leaves as it was
Iterated == IF out.gen = inp.gen THEN chunks ELSE inp.pre

\* self._df[t] = self._df.get(t, 0) + 1 for the keys of freq
DfAdd(df, freq) ==
    [t \in DOMAIN df \cup DOMAIN freq |->
        (IF t \in DOMAIN df THEN df[t] ELSE 0)
          + (IF t \in DOMAIN freq THEN 1 ELSE 0)]

\* one iteration of the loop of _build_bm25, or its end: _avgdl and
\* self._built = True
BuildChunk ==
    LET Tabled(toks) ==
            /\ tabs' = [tabs EXCEPT !.tf = Append(tabs.tf, Freq(toks)),
                                    !.df = DfAdd(tabs.df, Freq(toks))]
            /\ out' = [out EXCEPT !.k = out.k + 1,
                                  !.lengths = Append(out.lengths, Len(toks))]
    IN  /\ inp.f = "race" /\ out.pc = "loop"
        /\ IF out.k < Len(Iterated)
           THEN Tabled(_tokenize(Iterated[out.k + 1].text))
           ELSE /\ tabs' = [tabs EXCEPT
                              !.avg = [num |-> SumOver(out.lengths,
                                                       DOMAIN out.lengths),
                                       den |-> Max2(1, Len(out.lengths))],
                              !.built = TRUE]
                /\ out' = [out EXCEPT !.pc = "mask"]
        /\ UNCHANGED <<chunks, docs, hits, ret, avsVars, inp>>

\* bm25_search: mask = [i for i, c in enumerate(self.chunks) if ...]
SearchMask ==
    LET Masked(mask) ==
            [out EXCEPT !.mask = mask,
                        !.pc = IF mask = << >> THEN "hits" ELSE "score"]
    IN  /\ inp.f = "race" /\ out.pc = "mask"
        /\ out' = Masked(Mask(chunks, NoFilter))
        /\ UNCHANGED <<memVars, avsVars, inp>>

\* the scores of bm25_search for a mask, from the tables as they are
ScoreMask(mask, tb, toks, N, top_k) ==
    Take(SortDesc(KeepPositive(
           [k \in 1..Len(mask) |->
              [i |-> mask[k],
               s |-> QuerySum(toks,
                              IF mask[k] < Len(tb.tf) THEN tb.tf[mask[k] + 1]
                              ELSE << >>,
                              tb, N)]])), top_k)

\* bm25_search: N = len(self.chunks) and the scoring loop
SearchScore ==
    /\ inp.f = "race" /\ out.pc = "score"
    /\ out' = [out EXCEPT
                 !.pairs = ScoreMask(out.mask, tabs,
                                     _tokenize(Rep(out.term, 1)),
                                     Len(chunks), out.top_k),
                 !.pc = "hits"]
    /\ UNCHANGED <<memVars, avsVars, inp>>

\* ChineseRAGEngine.search: c = self.index.chunks[i] for every pair; an
\* index past the end of the list raises IndexError
SearchHits ==
    /\ inp.f = "race" /\ out.pc = "hits"
    /\ IF \E j \in 1..Len(out.pairs) : out.pairs[j].i >= Len(chunks)
       THEN /\ out' = [out EXCEPT !.pc = "raised"]
            /\ UNCHANGED hits
       ELSE /\ out' = [out EXCEPT !.pc = "done"]
            /\ hits' = [j \in 1..Len(out.pairs) |->
                          [id    |-> chunks[out.pairs[j].i + 1].id,
                           text  |-> chunks[out.pairs[j].i + 1].text,
                           score |-> out.pairs[j].s,
                           i     |-> out.pairs[j].i]]
    /\ ret' = [op |-> "search"]
    /\ UNCHANGED <<chunks, docs, tabs, avsVars, inp>>

NextRace ==
    \/ AddRegister
    \/ AddAppend
    \/ DeleteRebind
    \/ DeletePop
    \/ ImportDocs
    \/ ImportRebind
    \/ MarkUnbuilt
    \/ \E term \in {"a", "b"}, top_k \in 1..MaxRaceCorpus :
          SearchBegin(term, top_k)
    \/ BuildBegin
    \/ BuildChunk
    \/ SearchMask
    \/ SearchScore
    \/ SearchHits

SpecRace == InitRace /\ [][NextRace]_vars

\* what the search returns when it runs alone on the chunks cs
AloneOn(cs) ==
    search(cs, NoTables,
           Query(Rep(out.term, 1), out.top_k, "bm25", AlphaDen, NoFilter)).hits

\* C19: a search that ran concurrently with a mutation returns what it
\* would return on the store before the mutation or on the store after
\* it, and it does not fail.
C19_SearchSeesPreOrPost ==
    (inp.f = "race" /\ out.pc \in {"done", "raised"})
    => /\ out.pc = "done"
       /\ hits \in {AloneOn(inp.pre),
                    AloneOn(Mutated(inp.pre, inp.preDocs, inp.m))}


\* ---------------------------------------------------------------------
\* Two semantic searches of the in-memory engine running concurrently
\* (core/rag.py, _ensure_vectors and semantic_search), each on its own
\* worker thread.  inp.thr holds the two threads, out.calls counts, for
\* every chunk, how often its text was sent to the embedding provider.

MaxPairCorpus == 2

SemIdle ==
    [pc |-> "idle", query |-> EmptyStr, top_k |-> 0, mask |-> << >>,
     idx_map |-> << >>, vecs |-> << >>, hits |-> << >>]

InitPair ==
    /\ \E n \in 1..MaxPairCorpus :
         \E P \in SUBSET (1..n) :
            \E txt \in [P -> RaceTexts] :
               /\ chunks = Corpus(n, txt)
               /\ docs = CorpusDocs(n)
               /\ out = [calls |-> [k \in 1..n |-> 0]]
    /\ tabs = NoTables
    /\ hits = << >>
    /\ ret = NoRet
    /\ AvsIdle
    /\ inp = [f |-> "pair", thr |-> <<SemIdle, SemIdle>>]

\* semantic_search up to its call of _ensure_vectors: the two early
\* returns and the mask
SemBegin(t, query, top_k) ==
    LET Masked(mask) ==
            [inp.thr[t] EXCEPT
               !.query = query, !.top_k = top_k, !.mask = mask,
               !.pc = IF mask = << >> THEN "done" ELSE "collect"]
    IN  /\ inp.f = "pair" /\ inp.thr[t].pc = "idle"
        /\ inp' = [inp EXCEPT !.thr[t] = Masked(Mask(chunks, NoFilter))]
        /\ UNCHANGED <<memVars, avsVars, out>>

\* the indices of a mask whose chunk has no vector, in mask order
RECURSIVE Missing(_, _)
Missing(cs, mask) ==
    IF mask = << >> THEN << >>
    ELSE (IF cs[Head(mask) + 1].vec = NoVec THEN <<Head(mask)>> ELSE << >>)
           \o Missing(cs, Tail(mask))

\* _ensure_vectors: the loop that collects to_encode and idx_map
SemCollect(t) ==
    LET Collected(idx_map) ==
            [inp.thr[t] EXCEPT
               !.idx_map = idx_map,
               !.pc = IF idx_map = << >> THEN "query" ELSE "encode"]
    IN  /\ inp.f = "pair" /\ inp.thr[t].pc = "collect"
        /\ inp' = [inp EXCEPT
                     !.thr[t] = Collected(Missing(chunks, inp.thr[t].mask))]
        /\ UNCHANGED <<memVars, avsVars, out>>

\* _ensure_vectors: vecs = self.embed.encode(to_encode)
SemEncode(t) ==
    /\ inp.f = "pair" /\ inp.thr[t].pc = "encode"
    /\ inp' = [inp EXCEPT
                 !.thr[t].vecs =
                     [j \in 1..Len(inp.thr[t].idx_map) |->
                        Encode(chunks[inp.thr[t].idx_map[j] + 1].text)],
                 !.thr[t].pc = "store"]
    /\ out' = [out EXCEPT
                 !.calls = [k \in DOMAIN out.calls |->
                              IF (k - 1) \in Range(inp.thr[t].idx_map)
                              THEN out.calls[k] + 1 ELSE out.calls[k]]]
    /\ UNCHANGED <<memVars, avsVars>>

\* _ensure_vectors: self.chunks[i].vec = vecs[j] for every collected index
SemStore(t) ==
    LET VecOf(i) ==
            inp.thr[t].vecs[CHOOSE j \in 1..Len(inp.thr[t].idx_map) :
                               inp.thr[t].idx_map[j] = i]
    IN  /\ inp.f = "pair" /\ inp.thr[t].pc = "store"
        /\ chunks' = [k \in 1..Len(chunks) |->
                        IF (k - 1) \in Range(inp.thr[t].idx_map)
                        THEN [chunks[k] EXCEPT !.vec = VecOf(k - 1)]
                        ELSE chunks[k]]
        /\ inp' = [inp EXCEPT !.thr[t].pc = "query"]
        /\ UNCHANGED <<docs, tabs, hits, ret, avsVars, out>>

\* the rest of semantic_search and of ChineseRAGEngine.search: the query
\* vector, the similarities of the chunks that carry a vector, the hits
SemFinish(t) ==
    LET Sims(own, qvec) ==
            [k \in 1..Len(own) |->
               [i |-> own[k], s |-> Cosine(qvec, chunks[own[k] + 1].vec)]]
        Hits(pairs) ==
            [k \in 1..Len(pairs) |->
               [id |-> chunks[pairs[k].i + 1].id,
                text |-> chunks[pairs[k].i + 1].text,
                score |-> pairs[k].s, i |-> pairs[k].i]]
    IN  /\ inp.f = "pair" /\ inp.thr[t].pc = "query"
        /\ inp' = [inp EXCEPT
                     !.thr[t].hits =
                         Hits(Take(SortDesc(Sims(inp.thr[t].mask,
                                                 Encode(inp.thr[t].query))),
                                   inp.thr[t].top_k)),
                     !.thr[t].pc = "done"]
        /\ UNCHANGED <<memVars, avsVars, out>>

NextPair ==
    \E t \in {1, 2} :
        \/ \E query \in RaceTexts, top_k \in 1..MaxPairCorpus :
              SemBegin(t, query, top_k)
        \/ SemCollect(t)
        \/ SemEncode(t)
        \/ SemStore(t)
        \/ SemFinish(t)

SpecPair == InitPair /\ [][NextPair]_vars

\* C20: across two concurrent searches the text of a chunk is sent to the
\* embedding provider at most once.
C20_ChunkEncodedOnce ==
    inp.f = "pair" => \A k \in DOMAIN out.calls : out.calls[k] <= 1

\* ------------------------------------------------------------------------
\* Encode on demand in sequential runs (core/rag.py)
\* ------------------------------------------------------------------------

\* A chunk of this specification carries one more field than _Chunk:
\* asked counts how many times the text of that chunk object was in a batch
\* handed to EmbeddingManager.encode.  The field travels with the object
\* through add, delete_doc (which rebinds the list to the kept objects) and
\* set_chunk_disabled.  ret only tells a search from a mutation here.

MaxEncChunks == 2

EncTags == {"t", "u"}

\* the documents callers ingest: [doc_id, text, ns, tags]; the namespace
\* and tags reach process_text inside the request's metadata
EncRequests ==
    {[doc_id |-> <<"a">>, text |-> TxA, ns |-> NoNs, tags |-> {}],
     [doc_id |-> <<"b">>, text |-> TxB, ns |-> "n", tags |-> {"t"}],
     [doc_id |-> <<"c">>, text |-> TxLong, ns |-> "n", tags |-> EncTags]}

\* no filter, a namespace, any of the tags, all of the tags
EncFilters ==
    {NoFilter,
     [ns |-> "n", tags_any |-> {}, tags_all |-> {}],
     [ns |-> NoNs, tags_any |-> {"t"}, tags_all |-> {}],
     [ns |-> NoNs, tags_any |-> {}, tags_all |-> EncTags]}

\* every search asks for as many hits as the store can hold
EncQueries ==
    {Query(TxA, MaxEncChunks, m, 1, f) :
        m \in {"semantic", "hybrid"}, f \in EncFilters}

NotAsked(c) ==
    [id |-> c.id, text |-> c.text, ns |-> c.ns, tags |-> c.tags,
     order |-> c.order, disabled |-> c.disabled, vec |-> c.vec, asked |-> 0]

\* the positions whose text ChineseRAGEngine.search(q) hands to the
\* provider: the to_encode batch of the one semantic_search a semantic or
\* hybrid search runs; a bm25 search and a search with top_k <= 0 encode
\* no chunk
Asked(cs, q) ==
    IF q.top_k <= 0 \/ q.mode = "bm25" THEN {}
    ELSE ToEncode(cs, Mask(cs, q.flt))

InitEnc ==
    /\ chunks = << >>
    /\ docs = << >>
    /\ tabs = NoTables
    /\ hits = << >>
    /\ ret = NoRet
    /\ AvsIdle
    /\ inp = [f |-> "enc"]
    /\ out = << >>

EncIngest(rq) ==
    LET doc == process_text(rq.text, rq.doc_id, rq.ns, rq.tags)
        r   == add(chunks, docs, doc)
    IN /\ inp.f = "enc"
       /\ Len(r.chunks) <= MaxEncChunks
       /\ chunks' = [k \in 1..Len(r.chunks) |->
                       IF k <= Len(chunks) THEN r.chunks[k]
                       ELSE NotAsked(r.chunks[k])]
       /\ docs' = r.docs
       /\ tabs' = [tabs EXCEPT !.built = FALSE]
       /\ ret' = NoRet
       /\ hits' = << >>
       /\ inp' = [f |-> "enc"]
       /\ UNCHANGED <<avsVars, out>>

EncDelete(d) ==
    LET r == delete_doc(chunks, docs, d)
    IN /\ inp.f = "enc"
       /\ chunks' = r.chunks
       /\ docs' = r.docs
       /\ tabs' = [tabs EXCEPT !.built = FALSE]
       /\ ret' = NoRet
       /\ hits' = << >>
       /\ inp' = [f |-> "enc"]
       /\ UNCHANGED <<avsVars, out>>

EncDisable(cid, flag) ==
    LET r == set_chunk_disabled(chunks, cid, flag)
    IN /\ inp.f = "enc"
       /\ chunks' = r.chunks
       /\ ret' = NoRet
       /\ hits' = << >>
       /\ inp' = [f |-> "enc"]
       /\ UNCHANGED <<docs, tabs, avsVars, out>>

\* a search; inp keeps the query and the positions that were in the batch
EncSearch(q) ==
    LET Return(r, sent) ==
            /\ chunks' = [k \in 1..Len(r.chunks) |->
                            IF k \in sent
                            THEN [r.chunks[k] EXCEPT !.asked = @ + 1]
                            ELSE r.chunks[k]]
            /\ tabs' = r.tabs
            /\ hits' = r.hits
            /\ ret' = [op |-> "search"]
            /\ inp' = [f |-> "enc", q |-> q, sent |-> sent]
            /\ UNCHANGED <<docs, avsVars, out>>
    IN /\ inp.f = "enc"
       /\ \A k \in 1..Len(chunks) : chunks[k].asked <= 1
       /\ Return(search(chunks, tabs, q), Asked(chunks, q))

NextEnc ==
    \/ \E rq \in EncRequests : EncIngest(rq)
    \/ \E rq \in EncRequests : EncDelete(rq.doc_id)
    \/ \E k \in 1..Len(chunks), fl \in BOOLEAN : EncDisable(chunks[k].id, fl)
    \/ \E q \in EncQueries : EncSearch(q)

SpecEnc == InitEnc /\ [][NextEnc]_vars

\* C21: in a sequential run of semantic and hybrid searches with
\* ingest, set_chunk_disabled and delete_document, the text of a stored
\* chunk is handed to the provider at most once, and exactly the chunks
\* that were handed over carry a vector.
C21_EncodedAtMostOnce ==
    inp.f = "enc" =>
        \A k \in 1..Len(chunks) :
            /\ chunks[k].asked <= 1
            /\ (chunks[k].asked = 1) <=> (chunks[k].vec # NoVec)

\* a search that found one chunk with its vector and one without: only the
\* second was in the batch
C21_Witness ==
    /\ inp.f = "enc"
    /\ ret.op = "search"
    /\ Len(chunks) = 2
    /\ inp.sent = {2}
    /\ chunks[1].asked = 1
    /\ chunks[2].asked = 1
    /\ Len(hits) = 2

\* C22: a semantic or hybrid search sends no chunk its filter excludes to
\* the provider and gives no such chunk a vector.
C22_ExcludedNotEncoded ==
    [][(inp'.f = "enc" /\ ret'.op = "search") =>
          \A k \in 1..Len(chunks) :
              ~_match_filters(chunks[k], inp'.q.flt) =>
                  /\ k \notin inp'.sent
                  /\ chunks'[k] = chunks[k]]_vars

\* a search with a tag filter that encoded the chunk that passes and left
\* the other, which fails the filter and has no vector, alone
C22_Witness ==
    /\ inp.f = "enc"
    /\ ret.op = "search"
    /\ inp.q.mode \in {"semantic", "hybrid"}
    /\ Len(chunks) = 2
    /\ inp.sent # {}
    /\ \E k \in 1..2 :
          /\ ~chunks[k].disabled
          /\ ~_match_filters(chunks[k], inp.q.flt)
          /\ chunks[k].vec = NoVec
          /\ chunks[k].asked = 0

\* ------------------------------------------------------------------------
\* The service's stores (ai-service: vector_store.py, bm25.py, search.py)
\* ------------------------------------------------------------------------

\* FAISS and rank_bm25 are libraries outside the repository.  What the
\* stores take from them is a score per stored row for the query at hand:
\* the model fixes one query, and a document carries sim, the inner product
\* FAISS computes for its (normalized) embedding, and lex, the score
\* BM25Okapi.get_scores gives its tokens.  Every score is positive: every
\* document is scoreable for the query.
\*
\* The service is [vs, bm, next]: vs = [documents, index] is the
\* VectorStore, index being the rows of the FAISS index (the sim of each
\* row); bm = [documents, index] is the BM25Index, index telling whether a
\* BM25Okapi object exists; next numbers the uuid4 of the next insert.

MaxInserts == 3

NoGuild == ""
Guilds == {"g", "h"}

\* the texts callers insert: [sim, lex] for the query
ServiceTexts == {[sim |-> 3, lex |-> 3], [sim |-> 2, lex |-> 1], [sim |-> 1, lex |-> 2]}

NewService ==
    [vs   |-> [documents |-> << >>, index |-> << >>],
     bm   |-> [documents |-> << >>, index |-> FALSE],
     next |-> 0]

\* all(doc.metadata.get(key) == value for key, value in filter_metadata.items())
\* for the filter {"guild_id": g}; NoGuild is no filter at all
MetaMatch(doc, g) == g = NoGuild \/ doc.guild = g

\* index.search(query, k): k row numbers (from 0) by descending inner
\* product; FAISS does not promise an order among equal scores
FaissSearch(index, k) ==
    {o \in [1..k -> 0..(Len(index) - 1)] :
        /\ \A a, b \in 1..k : a < b =>
              /\ o[a] # o[b]
              /\ index[o[a] + 1] >= index[o[b] + 1]
        /\ \A r \in 0..(Len(index) - 1) :
              (\A a \in 1..k : o[a] # r) =>
                  (k = 0 \/ index[r + 1] <= index[o[k] + 1])}

\* the loop that builds the results of VectorStore.search and
\* BM25Index.search from the ranked row numbers: rows beyond the documents
\* are skipped, documents that fail the filter are skipped, and the loop
\* breaks at top_k results
RECURSIVE ResultLoop(_, _, _, _, _, _)
ResultLoop(order, documents, score, g, top_k, results) ==
    IF order = << >> THEN results
    ELSE LET idx == Head(order)
             Rest(res) ==
                 IF Len(res) >= top_k /\ Len(res) > Len(results) THEN res
                 ELSE ResultLoop(Tail(order), documents, score, g, top_k, res)
         IN IF idx >= Len(documents) THEN Rest(results)
            ELSE IF ~MetaMatch(documents[idx + 1], g) THEN Rest(results)
            ELSE Rest(Append(results,
                             [doc_id |-> documents[idx + 1].doc_id,
                              guild  |-> documents[idx + 1].guild,
                              score  |-> score[idx + 1]]))

\* VectorStore.search, given the rows FAISS returned for search_k
search_k(vs, top_k) == Min2(top_k * 2, Len(vs.index))

vector_search(vs, top_k, g, rows) ==
    IF Len(vs.index) = 0 THEN << >>
    ELSE ResultLoop(rows, vs.documents, vs.index, g, top_k, << >>)

\* BM25Index.search: sorted(range(len(scores)), key=scores, reverse=True)
\* keeps equal scores in row order
bm25_index_search(bm, top_k, g) ==
    LET scores == [k \in 1..Len(bm.documents) |-> bm.documents[k].lex]
        ranked == SortDesc([k \in 1..Len(scores) |-> [i |-> k - 1, s |-> scores[k]]])
        top_indices == [k \in 1..Len(Take(ranked, top_k * 2)) |-> ranked[k].i]
    IN IF ~bm.index THEN << >>
       ELSE ResultLoop(top_indices, bm.documents, scores, g, top_k, << >>)

\* VectorStore.add and BM25Index.add
vector_add(vs, doc) ==
    [documents |-> Append(vs.documents, doc), index |-> Append(vs.index, doc.sim)]

bm25_add(bm, doc) ==
    [documents |-> Append(bm.documents, doc), index |-> TRUE]

InitService ==
    /\ chunks = << >>
    /\ docs = << >>
    /\ tabs = NoTables
    /\ hits = << >>
    /\ ret = NoRet
    /\ AvsIdle
    /\ inp = [f |-> "service", svc |-> NewService]
    /\ out = [f |-> "none"]

\* RAGSearchService.insert
ServiceInsert(text, g) ==
    LET svc == inp.svc
        doc == [doc_id |-> IdxStr(svc.next), guild |-> g,
                sim |-> text.sim, lex |-> text.lex]
    IN /\ inp.f = "service"
       /\ svc.next < MaxInserts
       /\ inp' = [inp EXCEPT !.svc = [vs   |-> vector_add(svc.vs, doc),
                                      bm   |-> bm25_add(svc.bm, doc),
                                      next |-> svc.next + 1]]
       /\ out' = [f |-> "insert", doc_id |-> doc.doc_id]
       /\ UNCHANGED <<memVars, avsVars>>

\* RAGSearchService.search(search_type="semantic") without a reranker
ServiceSemantic(top_k, g) ==
    /\ inp.f = "service"
    /\ \E rows \in FaissSearch(inp.svc.vs.index, search_k(inp.svc.vs, top_k)) :
          out' = [f |-> "semantic", top_k |-> top_k, guild |-> g,
                  results |-> vector_search(inp.svc.vs, top_k, g, rows)]
    /\ UNCHANGED <<memVars, avsVars, inp>>

\* RAGSearchService.search(search_type="bm25") without a reranker
ServiceBm25(top_k, g) ==
    /\ inp.f = "service"
    /\ out' = [f |-> "bm25", top_k |-> top_k, guild |-> g,
               results |-> bm25_index_search(inp.svc.bm, top_k, g)]
    /\ UNCHANGED <<memVars, avsVars, inp>>

\* VectorStore._create_new_index: a new empty FAISS index, and
\* self.documents = []
_create_new_index(vs) == [documents |-> << >>, index |-> << >>]

\* position (from 1) of the first document with that doc_id, 0 when none
DocIdx(documents, doc_id) ==
    IF \E k \in 1..Len(documents) : documents[k].doc_id = doc_id
    THEN CHOOSE k \in 1..Len(documents) :
            /\ documents[k].doc_id = doc_id
            /\ \A j \in 1..(k - 1) : documents[j].doc_id # doc_id
    ELSE 0

\* VectorStore.delete: pop the document, rebuild the index with
\* _create_new_index, then add the embeddings of self.documents to it
vector_delete(vs, doc_id) ==
    LET doc_idx == DocIdx(vs.documents, doc_id)
        popped  == [documents |->
                        [k \in 1..(Len(vs.documents) - 1) |->
                            IF k < doc_idx THEN vs.documents[k]
                            ELSE vs.documents[k + 1]],
                    index |-> vs.index]
        rebuilt == _create_new_index(popped)
        readded == [documents |-> rebuilt.documents,
                    index |-> [k \in 1..Len(rebuilt.documents) |->
                                  rebuilt.documents[k].sim]]
    IN IF doc_idx = 0 THEN [vs |-> vs, deleted |-> FALSE]
       ELSE [vs |-> readded, deleted |-> TRUE]

\* BM25Index.delete: drop every document with that doc_id and rebuild the
\* tokenized corpus and the BM25Okapi object (None for an empty corpus)
bm25_delete(bm, doc_id) ==
    LET kept == SelectSeq(bm.documents, LAMBDA d : d.doc_id # doc_id)
    IN IF Len(kept) = Len(bm.documents) THEN [bm |-> bm, deleted |-> FALSE]
       ELSE [bm |-> [documents |-> kept, index |-> kept # << >>],
             deleted |-> TRUE]

\* RAGSearchService.delete_document; out keeps the vector store as it was
\* before the call
ServiceDelete(doc_id) ==
    LET svc == inp.svc
        v   == vector_delete(svc.vs, doc_id)
        b   == bm25_delete(svc.bm, doc_id)
    IN /\ inp.f = "service"
       /\ inp' = [inp EXCEPT !.svc = [vs |-> v.vs, bm |-> b.bm,
                                      next |-> svc.next]]
       /\ out' = [f |-> "delete", doc_id |-> doc_id, before |-> svc.vs,
                  vec_deleted |-> v.deleted,
                  ok |-> v.deleted \/ b.deleted]
       /\ UNCHANGED <<memVars, avsVars>>

ServiceTopKs == {1, 2}

NextService ==
    \/ \E text \in ServiceTexts, g \in Guilds : ServiceInsert(text, g)
    \/ \E top_k \in ServiceTopKs, g \in Guilds \cup {NoGuild} : ServiceSemantic(top_k, g)
    \/ \E top_k \in ServiceTopKs, g \in Guilds \cup {NoGuild} : ServiceBm25(top_k, g)
    \/ \E k \in 0..(MaxInserts - 1) : ServiceDelete(IdxStr(k))

SpecService == InitService /\ [][NextService]_vars

\* the stored documents a search with that filter may return, and the score
\* the search ranks them by
Passing(documents, g) == {k \in 1..Len(documents) : MetaMatch(documents[k], g)}

SearchedStore == IF out.f = "semantic" THEN inp.svc.vs.documents ELSE inp.svc.bm.documents

ScoreIn(doc) == IF out.f = "semantic" THEN doc.sim ELSE doc.lex

\* C23: when at least top_k stored documents pass the filter of a vector or
\* lexical search, the search returns top_k hits, every hit passes the
\* filter, and no passing document that was left out scores higher than a
\* hit.
C23_FilterBeforeTruncation ==
    (inp.f = "service" /\ out.f \in {"semantic", "bm25"}) =>
        LET passing == Passing(SearchedStore, out.guild)
            hit(k)  == \E j \in 1..Len(out.results) :
                          out.results[j].doc_id = SearchedStore[k].doc_id
        IN Cardinality(passing) >= out.top_k =>
              /\ Len(out.results) = out.top_k
              /\ \A j \in 1..Len(out.results) : MetaMatch(out.results[j], out.guild)
              /\ \A k \in passing : ~hit(k) =>
                    \A j \in 1..Len(out.results) :
                        out.results[j].score >= ScoreIn(SearchedStore[k])

\* ------------------------------------------------------------------------
\* The term tables at scoring time (core/rag.py)
\* ------------------------------------------------------------------------

MaxTabChunks == 2

\* one-chunk documents; the third replaces nothing: it adds a second chunk
\* "a:0" with another text
TabRequests == {Req(<<"a">>, TxA, NoNs), Req(<<"b">>, TxB, NoNs), Req(<<"a">>, TxB, NoNs)}

TabPayloads == {export_json(StoreOf(r).chunks, StoreOf(r).docs) : r \in TabRequests}

TabQueries == {Query(TxA, MaxTabChunks, m, 1, NoFilter) : m \in {"bm25", "hybrid"}}

InitTab ==
    /\ chunks = << >>
    /\ docs = << >>
    /\ tabs = NoTables
    /\ hits = << >>
    /\ ret = NoRet
    /\ AvsIdle
    /\ inp = [f |-> "tab"]
    /\ out = << >>

TabIngest(rq) ==
    LET r == add(chunks, docs, process_text(rq.text, rq.doc_id, rq.ns, {}))
    IN /\ inp.f = "tab"
       /\ Len(r.chunks) <= MaxTabChunks
       /\ chunks' = r.chunks
       /\ docs' = r.docs
       /\ tabs' = [tabs EXCEPT !.built = FALSE]
       /\ ret' = NoRet
       /\ hits' = << >>
       /\ inp' = [f |-> "tab"]
       /\ UNCHANGED <<avsVars, out>>

TabDelete(d) ==
    LET r == delete_doc(chunks, docs, d)
    IN /\ inp.f = "tab"
       /\ chunks' = r.chunks
       /\ docs' = r.docs
       /\ tabs' = [tabs EXCEPT !.built = FALSE]
       /\ ret' = NoRet
       /\ hits' = << >>
       /\ inp' = [f |-> "tab"]
       /\ UNCHANGED <<avsVars, out>>

TabDisable(cid, flag) ==
    /\ inp.f = "tab"
    /\ chunks' = set_chunk_disabled(chunks, cid, flag).chunks
    /\ ret' = NoRet
    /\ hits' = << >>
    /\ inp' = [f |-> "tab"]
    /\ UNCHANGED <<docs, tabs, avsVars, out>>

TabImport(payload) ==
    LET r == import_json(payload)
    IN /\ inp.f = "tab"
       /\ chunks' = r.chunks
       /\ docs' = r.docs
       /\ tabs' = [tabs EXCEPT !.built = FALSE]
       /\ ret' = NoRet
       /\ hits' = << >>
       /\ inp' = [f |-> "tab"]
       /\ UNCHANGED <<avsVars, out>>

\* a bm25 or hybrid search; inp keeps the query and whether the search
\* found the tables marked stale
TabSearch(q) ==
    LET Return(r) ==
            /\ chunks' = r.chunks
            /\ tabs' = r.tabs
            /\ hits' = r.hits
            /\ ret' = [op |-> "search"]
            /\ inp' = [f |-> "tab", q |-> q, stale |-> ~tabs.built]
            /\ UNCHANGED <<docs, avsVars, out>>
    IN /\ inp.f = "tab"
       /\ Return(search(chunks, tabs, q))

NextTab ==
    \/ \E rq \in TabRequests : TabIngest(rq)
    \/ \E rq \in TabRequests : TabDelete(rq.doc_id)
    \/ \E k \in 1..Len(chunks), fl \in BOOLEAN : TabDisable(chunks[k].id, fl)
    \/ \E p \in TabPayloads : TabImport(p)
    \/ \E q \in TabQueries : TabSearch(q)

SpecTab == InitTab /\ [][NextTab]_vars

\* the number of times token t occurs in a text
CountIn(text, t) ==
    Cardinality({j \in DOMAIN _tokenize(text) : _tokenize(text)[j] = t})

TokensOf(text) == {_tokenize(text)[j] : j \in DOMAIN _tokenize(text)}

RECURSIVE TotalLength(_)
TotalLength(cs) ==
    IF cs = << >> THEN 0
    ELSE Len(_tokenize(Head(cs).text)) + TotalLength(Tail(cs))

\* the search got as far as scoring: the store and the mask are not empty
Scored == chunks # << >> /\ Mask(chunks, inp.q.flt) # << >>

\* C24: when a lexical search scores, the tables are those of the stored
\* chunks: one term-frequency entry per chunk, entry k counting the tokens
\* of chunk k's text, document frequencies counting the stored chunks that
\* hold the token, and the average length taken over the stored chunks.
C24_TablesCurrent ==
    (inp.f = "tab" /\ ret.op = "search" /\ Scored) =>
        /\ Len(tabs.tf) = Len(chunks)
        /\ \A k \in 1..Len(chunks) :
              /\ DOMAIN tabs.tf[k] = TokensOf(chunks[k].text)
              /\ \A t \in DOMAIN tabs.tf[k] : tabs.tf[k][t] = CountIn(chunks[k].text, t)
        /\ DOMAIN tabs.df = UNION {TokensOf(chunks[k].text) : k \in 1..Len(chunks)}
        /\ \A t \in DOMAIN tabs.df :
              tabs.df[t] = Cardinality({k \in 1..Len(chunks) : t \in TokensOf(chunks[k].text)})
        /\ tabs.avg.num * Len(chunks) = TotalLength(chunks) * tabs.avg.den

\* a search that found the tables stale over a store of two chunks, one of
\* them disabled, and scored the other
C24_Witness ==
    /\ inp.f = "tab"
    /\ ret.op = "search"
    /\ inp.stale
    /\ Len(chunks) = 2
    /\ chunks[1].disabled
    /\ Len(hits) = 1
    /\ Len(tabs.tf) = 2

\* ------------------------------------------------------------------------
\* The character budget of the chunker (core/rag.py)
\* ------------------------------------------------------------------------

MaxParas == 3

\* paragraph lengths around the default budget of 700 and around 5
ParaLengths == {1, 4, 650, 701}

\* [max_chunk_chars, overlap] as DocumentProcessor may be configured
ChunkConfigs ==
    {[maxc |-> max_chunk_chars, ovl |-> overlap],
     [maxc |-> max_chunk_chars, ovl |-> 0],
     [maxc |-> 5, ovl |-> 2]}

\* paragraphs of the given lengths separated by blank lines
RECURSIVE ParaText(_)
ParaText(ls) ==
    IF ls = << >> THEN EmptyStr
    ELSE IF Len(ls) = 1 THEN Rep("c", ls[1])
    ELSE SCat(SCat(Rep("c", ls[1]), Rep("\n", 2)), ParaText(Tail(ls)))

InitChunk ==
    /\ MemIdle
    /\ ret = NoRet
    /\ AvsIdle
    /\ \E ls \in SeqsUpTo(ParaLengths, MaxParas), cfg \in ChunkConfigs :
          inp = [f |-> "_chunk", text |-> ParaText(ls), paras |-> ls,
                 maxc |-> cfg.maxc, ovl |-> cfg.ovl]
    /\ out = << >>

\* DocumentProcessor(max_chunk_chars, overlap)._chunk(text)
Chunk ==
    /\ inp.f = "_chunk"
    /\ out = << >>
    /\ out' = [chunks |-> ChunkWith(inp.text, inp.maxc, inp.ovl)]
    /\ UNCHANGED <<memVars, avsVars, inp>>

NextChunk == Chunk

SpecChunk == InitChunk /\ [][NextChunk]_vars

\* C25: every chunk _chunk returns is at most max_chunk_chars long.
C25_ChunkUnderBudget ==
    (inp.f = "_chunk" /\ out # << >>) =>
        \A k \in 1..Len(out.chunks) : SLen(out.chunks[k]) <= inp.maxc

\* ------------------------------------------------------------------------
\* The picks of mmr_select (app/pipelines/rag_plus.py)
\* ------------------------------------------------------------------------

\* lambda_ as fractions: 0.0, 0.5, the default 0.7, 1.0
PickLambdas ==
    {[num |-> 0, den |-> 1], [num |-> 1, den |-> 2],
     [num |-> 7, den |-> 10], [num |-> 1, den |-> 1]}

NextPick == \E top_k \in 0..(MaxCand + 1), lam \in PickLambdas : MmrSelect(top_k, lam)

SpecPick == InitMMR /\ [][NextPick]_vars

\* the candidate (from 0) that carries the text at position p of the result
PickAt(p) == CHOOSE j \in 0..(Len(inp.texts) - 1) : inp.texts[j + 1] = out.texts[p]

PickedBefore(p) == {PickAt(r) : r \in 1..(p - 1)}

\* lambda * sim(query, c) - (1 - lambda) * max over the selected s of
\* sim(c, s), multiplied by l_den
MarginalRelevance(j, sel) ==
    out.l_num * Dot(inp.query_vec, inp.cand_vecs[j + 1])
      - (out.l_den - out.l_num)
          * MaxOf({Dot(inp.cand_vecs[j + 1], inp.cand_vecs[s + 1]) : s \in sel})

\* C26: mmr_select returns min(top_k, number of candidates) different
\* candidates, and every pick after the first has the greatest marginal
\* relevance among the candidates not yet selected.
C26_PickMaximizesMMR ==
    (inp.f = "mmr_select" /\ out # << >>) =>
        /\ Len(out.texts) = Min2(Max2(out.top_k, 0), Len(inp.texts))
        /\ \A p, r \in 1..Len(out.texts) : p # r => out.texts[p] # out.texts[r]
        /\ \A p \in 2..Len(out.texts) :
              \A j \in (0..(Len(inp.texts) - 1)) \ PickedBefore(p) :
                  MarginalRelevance(PickAt(p), PickedBefore(p))
                      >= MarginalRelevance(j, PickedBefore(p))

\* ------------------------------------------------------------------------
\* majority_vote (app/util/text.py)
\* ------------------------------------------------------------------------

MaxVotes == 3

\* "a", "a.", "b", "a b"
VoteAnswers ==
    {Str(<<"a">>), Str(<<"a", ".">>), Str(<<"b">>), Str(<<"a", " ", "b">>)}

InitVote ==
    /\ MemIdle
    /\ ret = NoRet
    /\ AvsIdle
    /\ \E xs \in SeqsUpTo(VoteAnswers, MaxVotes) : inp = [f |-> "majority_vote", xs |-> xs]
    /\ out = << >>

Vote ==
    /\ inp.f = "majority_vote"
    /\ out = << >>
    /\ out' = [answer |-> majority_vote(inp.xs)]
    /\ UNCHANGED <<memVars, avsVars, inp>>

NextVote == Vote

SpecVote == InitVote /\ [][NextVote]_vars

\* s.split(): the maximal runs of characters that are not white space
RECURSIVE WsSplit(_, _)
WsSplit(s, cur) ==
    IF s = << >> THEN (IF cur = << >> THEN << >> ELSE <<cur>>)
    ELSE IF IsSpace(Head(s).c)
         THEN (IF cur = << >> THEN << >> ELSE <<cur>>) \o WsSplit(Tail(s), << >>)
         ELSE WsSplit(Tail(s), cur \o <<Head(s)>>)

\* the set of whitespace-separated lowercase words of a candidate
WordSet(s) == Range(WsSplit(Lower(s), << >>))

\* |a & b| / |a | b|, 0 for two empty sets
Jaccard(a, b) ==
    IF a \cup b = {} THEN [num |-> 0, den |-> 1]
    ELSE [num |-> Cardinality(a \cap b), den |-> Cardinality(a \cup b)]

\* the sum of the similarities of candidate i to the candidates in others;
\* the average is this sum over the same count for every candidate
RECURSIVE JaccardTotal(_, _, _)
JaccardTotal(xs, i, others) ==
    IF others = {} THEN [num |-> 0, den |-> 1]
    ELSE LET j == CHOOSE m \in others : TRUE
         IN RatAdd(Jaccard(WordSet(xs[i]), WordSet(xs[j])),
                   JaccardTotal(xs, i, others \ {j}))

Centrality(xs, i) == JaccardTotal(xs, i, (1..Len(xs)) \ {i})

\* C27: majority_vote returns the first candidate whose average Jaccard
\* similarity to the other candidates, over whitespace-separated lowercase
\* word sets, is greatest.
C27_VoteIsFirstMostCentral ==
    (inp.f = "majority_vote" /\ out # << >> /\ inp.xs # << >>) =>
        \E i \in 1..Len(inp.xs) :
            /\ out.answer = inp.xs[i]
            /\ \A j \in 1..Len(inp.xs) :
                  ~RatLess(Centrality(inp.xs, i), Centrality(inp.xs, j))
            /\ \A j \in 1..(i - 1) :
                  \/ RatLess(Centrality(inp.xs, j), Centrality(inp.xs, i))
                  \/ inp.xs[j] = inp.xs[i]

\* ------------------------------------------------------------------------
\* The metadata compress_context returns (app/pipelines/rag_plus.py)
\* ------------------------------------------------------------------------

MaxPool == 3

\* "a", "a b", "b", " b": the first is contained in the second, the third in
\* the second and the fourth
PoolTexts ==
    {TxA, Str(<<"a", " ", "b">>), Rep("b", 1), Str(<<" ", "b">>)}

\* candidate pools: up to MaxPool retrieved chunks of different texts, the
\* chunk at position j carrying the metadata str(j)
Pools ==
    {[j \in 1..Len(ts) |-> Retrieved(ts[j], 0, IdxStr(j))] :
        ts \in {s \in SeqsUpTo(PoolTexts, MaxPool) :
                   \A a, b \in 1..Len(s) : a # b => s[a] # s[b]}}

InitCompress ==
    /\ MemIdle
    /\ ret = NoRet
    /\ AvsIdle
    /\ \E pool \in Pools, q \in {TxA, Rep("b", 1)} :
          inp = [f |-> "compress_context", question |-> q, pool |-> pool]
    /\ out = << >>

\* RAGPlus.compress_context(question, chunks, out_k) with a provider that
\* answers
Compress(out_k) ==
    /\ inp.f = "compress_context"
    /\ out = << >>
    /\ out' = [out_k |-> out_k,
               r |-> compress_context(inp.question, inp.pool, out_k, "returns")]
    /\ UNCHANGED <<memVars, avsVars, inp>>

NextCompress == \E out_k \in 1..MaxPool : Compress(out_k)

SpecCompress == InitCompress /\ [][NextCompress]_vars

\* C28: compress_context returns one metadata entry per selected passage,
\* and entry i is the metadata of a chunk of the pool whose text is passage
\* [i] of the numbered context.
C28_MetadataOfSelected ==
    (inp.f = "compress_context" /\ out # << >>) =>
        /\ Len(out.r.metas) = Len(out.r.ctx)
        /\ \A i \in 1..Len(out.r.ctx) :
              i <= Len(out.r.metas) =>
                  \E j \in 1..Len(inp.pool) :
                      /\ inp.pool[j].meta = out.r.metas[i]
                      /\ normalize_ws(inp.pool[j].content) = out.r.ctx[i].text

\* ------------------------------------------------------------------------
\* The two engines of the router (app/routers_rag.py): _rag, which ingest
\* writes to, and the engine RAGPlus builds for itself
\* ------------------------------------------------------------------------

MaxPlusChunks == 2

\* RAGPlus.__init__: self.engine = ChineseRAGEngine(...), a new engine with
\* an empty index
NewEngine == [chunks |-> << >>, docs |-> << >>, tabs |-> NoTables]

\* RetrievalQuery(text=q, top_k=top_k, mode=mode): alpha keeps its default
\* 0.7 and there is no filter
RetrievalQuery(t, k, m) ==
    [text |-> t, top_k |-> k, mode |-> m, a_num |-> 7, a_den |-> 10,
     flt |-> NoFilter]

PlusQueries == {RetrievalQuery(t, k, "hybrid") : t \in {TxA, TxB}, k \in 1..MaxPlusChunks}

\* the module level of routers_rag.py: _rag = get_rag_engine(), which is a
\* ChineseRAGEngine unless the backend is "avs", and _ragplus = RAGPlus().
\* chunks, docs and tabs are the index of _rag; inp.engine is the index of
\* _ragplus.engine.
InitPlus ==
    /\ MemIdle
    /\ ret = NoRet
    /\ AvsIdle
    /\ inp = [f |-> "plus", engine |-> NewEngine]
    /\ out = [f |-> "none"]

\* upsert_text: _rag.add_document(_doc.process_text(...))
PlusIngest(rq) ==
    LET doc == process_text(rq.text, rq.doc_id, rq.ns, rq.tags)
        r   == add(chunks, docs, doc)
    IN /\ inp.f = "plus"
       /\ Len(r.chunks) <= MaxPlusChunks
       /\ chunks' = r.chunks
       /\ docs' = r.docs
       /\ tabs' = [tabs EXCEPT !.built = FALSE]
       /\ ret' = NoRet
       /\ hits' = << >>
       /\ out' = [f |-> "none"]
       /\ UNCHANGED <<avsVars, inp>>

\* the delete endpoint: _rag.delete_document(doc_id)
PlusDelete(d) ==
    LET r == delete_doc(chunks, docs, d)
    IN /\ inp.f = "plus"
       /\ chunks' = r.chunks
       /\ docs' = r.docs
       /\ tabs' = [tabs EXCEPT !.built = FALSE]
       /\ ret' = NoRet
       /\ hits' = << >>
       /\ out' = [f |-> "none"]
       /\ UNCHANGED <<avsVars, inp>>

\* the disable endpoint: _rag.set_chunk_disabled(chunk_id, flag)
PlusDisable(cid, flag) ==
    LET r == set_chunk_disabled(chunks, cid, flag)
    IN /\ inp.f = "plus"
       /\ chunks' = r.chunks
       /\ ret' = NoRet
       /\ hits' = << >>
       /\ out' = [f |-> "none"]
       /\ UNCHANGED <<docs, tabs, avsVars, inp>>

\* a plain search: _rag.search(q)
PlusSearch(q) ==
    LET r == search(chunks, tabs, q)
    IN /\ inp.f = "plus"
       /\ chunks' = r.chunks
       /\ tabs' = r.tabs
       /\ hits' = r.hits
       /\ ret' = [op |-> "search", q |-> q]
       /\ UNCHANGED <<docs, avsVars, inp, out>>

\* rag_answer on the advanced path, at step 2 of RAGPlus.run:
\* retrieve_for(q, top_k, "hybrid") searches self.engine and wraps each hit
RetrieveFor(q) ==
    LET r == search(inp.engine.chunks, inp.engine.tabs, q)
    IN /\ inp.f = "plus"
       /\ inp' = [inp EXCEPT !.engine.chunks = r.chunks,
                             !.engine.tabs = r.tabs]
       /\ out' = [f |-> "retrieve_for", q |-> q,
                  hits |-> [k \in 1..Len(r.hits) |->
                              Retrieved(r.hits[k].text, r.hits[k].score,
                                        r.hits[k])]]
       /\ UNCHANGED <<memVars, avsVars>>

NextPlus ==
    \/ \E rq \in EncRequests : PlusIngest(rq)
    \/ \E rq \in EncRequests : PlusDelete(rq.doc_id)
    \/ \E k \in 1..Len(chunks), fl \in BOOLEAN : PlusDisable(chunks[k].id, fl)
    \/ \E q \in PlusQueries : PlusSearch(q)
    \/ \E q \in PlusQueries : RetrieveFor(q)

SpecPlus == InitPlus /\ [][NextPlus]_vars

\* C29: the per-query retrieval of RAGPlus.run returns the hits a plain
\* search of the store that ingest writes to returns for the same query:
\* every chunk that was ingested, and neither disabled nor deleted, and that
\* the plain search finds is found by retrieve_for too.
C29_RetrievesIngested ==
    (inp.f = "plus" /\ out.f = "retrieve_for") =>
        LET plain == search(chunks, tabs, out.q).hits
        IN /\ Len(out.hits) = Len(plain)
           /\ \A k \in 1..Len(plain) :
                 k <= Len(out.hits) => out.hits[k].meta.id = plain[k].id

\* ------------------------------------------------------------------------
\* Deleting from the service's stores
\* ------------------------------------------------------------------------

StoredIds(documents) == {documents[k].doc_id : k \in 1..Len(documents)}

\* the documents without the first one of that doc_id
Remaining(documents, doc_id) ==
    LET i == DocIdx(documents, doc_id)
    IN [k \in 1..(Len(documents) - 1) |->
           IF k < i THEN documents[k] ELSE documents[k + 1]]

\* C30: VectorStore.delete(doc_id) of a stored document removes that
\* document and no other: the other documents stay stored, in their order and
\* each with its row in the index, count() is one less than before; and after
\* any sequence of insert and delete_document the vector store and the BM25
\* index hold the same document ids.
C30_DeleteRemovesOnlyThat ==
    inp.f = "service" =>
        /\ (out.f = "delete" /\ out.vec_deleted) =>
              /\ inp.svc.vs.documents = Remaining(out.before.documents, out.doc_id)
              /\ Len(inp.svc.vs.documents) = Len(out.before.documents) - 1
              /\ Len(inp.svc.vs.index) = Len(inp.svc.vs.documents)
        /\ StoredIds(inp.svc.vs.documents) = StoredIds(inp.svc.bm.documents)

====
